---- MODULE Spec2Model ----
(***************************************************************************)
(* The insight store of chitin (InsightRepository over the SQLite schema,  *)
(* the history ledger and the embedding store) together with the conflict  *)
(* detector and the retrieval ranker, as a state machine.                  *)
(*                                                                         *)
(* Numbers: every JavaScript number / SQLite REAL that takes part in       *)
(* arithmetic (confidence, similarity, scores) is a fixed-point number in  *)
(* units of 1/Scale; every arithmetic operation rounds its result to the   *)
(* nearest representable value, ties to even, as IEEE-754 does.            *)
(* Texts: stored texts are strings; the tokenizer reads a claim through    *)
(* Chars, its sequence of one-character strings.                           *)
(* Nullable values: NULL is the empty tuple, a present value v is <<v>>.   *)
(***************************************************************************)
EXTENDS Integers, Sequences, FiniteSets, TLC

(* ------------------------------ bounds -------------------------------- *)
\* ids ever handed out by crypto.randomUUID() in one run
MaxInsights == 2
\* a call that writes the ledger starts only while insight_history has seen fewer
\* than this many rows
MaxHistory == 3
\* the same, in the specification of merge
MaxMergeHistory == 4
\* the clock datetime('now') runs from 0 to MaxTime
MaxTime == 1
\* reinforcements applied in the reinforcement-chain specification
ChainLen == 22

(* ---------------------------- numbers --------------------------------- *)
\* resolution of a REAL: the value v stands for v / Scale
Scale == 10000

Min(a, b) == IF a <= b THEN a ELSE b
Max(a, b) == IF a >= b THEN a ELSE b

\* n / d rounded to the nearest integer, ties to even (d > 0)
RoundDiv(n, d) ==
  LET m == IF n >= 0 THEN n ELSE -n
      q == m \div d
      r == m % d
      a == IF 2 * r < d THEN q
           ELSE IF 2 * r > d THEN q + 1
           ELSE IF q % 2 = 0 THEN q ELSE q + 1
  IN  IF n >= 0 THEN a ELSE -a

\* the rounded product of two fixed-point numbers
Mul(a, b) == RoundDiv(a * b, Scale)

(* ----------------------------- texts ---------------------------------- *)
NULL == << >>
Some(v) == <<v>>
\* JavaScript `x ?? d` on a nullable value
OrElse(o, d) == IF o = NULL THEN d ELSE o[1]

Digit(d) == <<"0", "1", "2", "3", "4", "5", "6", "7", "8", "9">>[d + 1]

\* String(n) of a non-negative integer
RECURSIVE IntToText(_)
IntToText(n) == IF n < 10 THEN Digit(n) ELSE IntToText(n \div 10) \o Digit(n % 10)

\* the decimal digits of the fraction f / w (w a power of ten), without trailing zeros
RECURSIVE FracToText(_, _)
FracToText(f, w) ==
  IF f = 0 THEN ""
  ELSE Digit((f * 10) \div w) \o FracToText((f * 10) % w, w)

\* String(x) of a number: shortest decimal text, "0.85", "1", "-0.1"
NumToText(x) ==
  LET m == IF x >= 0 THEN x ELSE -x
      sign == IF x >= 0 THEN "" ELSE "-"
      frac == FracToText(m % Scale, Scale)
  IN  sign \o IntToText(m \div Scale) \o (IF frac = "" THEN "" ELSE "." \o frac)

\* String(b) of a boolean
BoolToText(b) == IF b THEN "true" ELSE "false"

\* the text of an insight id (a UUID in the program)
IdToText(id) == "id" \o IntToText(id)

RECURSIVE JoinTexts(_, _)
JoinTexts(ts, sep) ==
  IF ts = << >> THEN ""
  ELSE IF Len(ts) = 1 THEN ts[1]
  ELSE ts[1] \o sep \o JoinTexts(Tail(ts), sep)

\* JSON.stringify of an array of strings
JSONstringify(tags) ==
  "[" \o JoinTexts([i \in 1..Len(tags) |-> "\"" \o tags[i] \o "\""], ",") \o "]"

(* ----------------------------- schema --------------------------------- *)
\* the type names the CHECK constraint of the insights table admits
INSIGHT_TYPES == {"behavioral", "personality", "relational", "principle", "skill", "trigger"}

\* the constraints without the upper limit of confidence
CheckInsightRowNoCeiling(row) ==
  /\ row.type \in INSIGHT_TYPES
  /\ row.confidence >= 0

\* the constraints without the lower limit of confidence
CheckInsightRowNoFloor(row) ==
  /\ row.type \in INSIGHT_TYPES
  /\ row.confidence <= Scale

\* the CHECK constraints of the insights table, evaluated on INSERT and UPDATE
CheckInsightRow(row) ==
  /\ row.type \in INSIGHT_TYPES
  /\ row.confidence >= 0
  /\ row.confidence <= Scale

(* ------------------------------ state --------------------------------- *)
VARIABLES
  insights,       \* table insights: id -> row
  embeddings,     \* table insight_embeddings: the rows in rowid order
  history,        \* table insight_history: the rows in insertion order
  nextId,         \* the next id crypto.randomUUID() hands out
  nextHistoryId,  \* the AUTOINCREMENT counter of insight_history
  now,            \* the clock read by datetime('now')
  budget,         \* the bound on the ledger rows of this run (constant)
  procs,          \* per process instance: where its reinforce stands, what it has read
  pending,        \* the file pending-reflection.json of the hook
  last            \* the last call: operation, arguments, outcome

vars ==
  <<insights, embeddings, history, nextId, nextHistoryId, now, budget, procs, pending, last>>

store == <<insights, embeddings, history>>

\* the process instances that share the database file
Procs == 1..2

\* no process is inside a call
IdleProcs == [p \in Procs |-> [pc |-> "idle", id |-> 0, existing |-> << >>]]

\* the file pending-reflection.json does not exist
NoFile == [kind |-> "missing", value |-> << >>]

Ids == 1..MaxInsights

\* the record of a call: id is the insight the call is about, other its second
\* argument (the target id of merge; 1 or 0 for the force option of contributeWithCheck);
\* id/other are 0 and input/out are empty where they do not apply
Call(op, status, id, other, input, out) ==
  [op |-> op, status |-> status, id |-> id, other |-> other, input |-> input, out |-> out]

\* f without the key k
Remove(f, k) == [x \in DOMAIN f \ {k} |-> f[x]]

\* the times datetime('now') can return during the next call (one reading per call:
\* the statements of a call run within the same second)
Clock == {t \in {now, now + 1} : t <= MaxTime}

(* ---------------------------- repository ------------------------------ *)
\* rowToInsight: the Insight object of a row. The tags column holds the JSON text of an
\* array of strings; a row keeps the array itself (JSON.parse of that text)
rowToInsight(id, row) ==
  [id |-> id, type |-> row.type, claim |-> row.claim, reasoning |-> row.reasoning,
   context |-> row.context, limitations |-> row.limitations,
   confidence |-> row.confidence, tags |-> row.tags, source |-> row.source,
   condition |-> row.condition, avoid |-> (row.avoid = 1),
   createdAt |-> row.created_at, updatedAt |-> row.updated_at,
   reinforcementCount |-> row.reinforcement_count,
   lastRetrievedAt |-> row.last_retrieved_at]

\* InsightRepository.get on the table tbl: NULL or the insight
get(tbl, id) == IF id \in DOMAIN tbl THEN Some(rowToInsight(id, tbl[id])) ELSE NULL

\* the orders in which SELECT ... ORDER BY created_at DESC can return the rows ids of
\* tbl: rows of equal created_at come in any order
RECURSIVE ListOrders(_, _)
ListOrders(tbl, ids) ==
  IF ids = {} THEN {<< >>}
  ELSE LET newest == {i \in ids : \A j \in ids : tbl[i].created_at >= tbl[j].created_at}
       IN  UNION {{<<i>> \o rest : rest \in ListOrders(tbl, ids \ {i})} : i \in newest}

\* InsightRepository.list without options: the results it can return
list(tbl) ==
  {[k \in 1..Len(o) |-> rowToInsight(o[k], tbl[o[k]])] : o \in ListOrders(tbl, DOMAIN tbl)}

\* a row of insight_history
HistoryRow(hid, insightId, field, old, new, changeType, t, source) ==
  [id |-> hid, insight_id |-> insightId, field |-> field, old_value |-> old,
   new_value |-> new, change_type |-> changeType, changed_at |-> t, source |-> source]

\* rowToEntry: the HistoryEntry of a row of insight_history
rowToEntry(row) ==
  [id |-> row.id, insightId |-> row.insight_id, field |-> row.field,
   oldValue |-> row.old_value, newValue |-> row.new_value,
   changeType |-> row.change_type, changedAt |-> row.changed_at, source |-> row.source]

\* the rows of the set rs ORDER BY changed_at DESC, id DESC
RECURSIVE OrderNewestFirst(_)
OrderNewestFirst(rs) ==
  IF rs = {} THEN << >>
  ELSE LET first == CHOOSE r \in rs : \A q \in rs :
                      \/ r.changed_at > q.changed_at
                      \/ r.changed_at = q.changed_at /\ r.id >= q.id
       IN  <<first>> \o OrderNewestFirst(rs \ {first})

\* the rows of the set rs ORDER BY changed_at ASC, id ASC
RECURSIVE OrderChronological(_)
OrderChronological(rs) ==
  IF rs = {} THEN << >>
  ELSE LET first == CHOOSE r \in rs : \A q \in rs :
                      \/ r.changed_at < q.changed_at
                      \/ r.changed_at = q.changed_at /\ r.id <= q.id
       IN  <<first>> \o OrderChronological(rs \ {first})

\* InsightHistory.getHistory without a limit, on the ledger h
getHistory(h, insightId) ==
  LET rows == OrderChronological({h[k] : k \in {j \in 1..Len(h) : h[j].insight_id = insightId}})
  IN  [k \in 1..Len(rows) |-> rowToEntry(rows[k])]

\* insight_embeddings without the cascade
EmbeddingsKept(emb, id) == emb

\* ON DELETE CASCADE of insight_embeddings
EmbeddingsAfterDelete(emb, id) == SelectSeq(emb, LAMBDA e : e.insight_id # id)

\* insight_history without the cascade
HistoryKept(h, id) == h

\* ON DELETE CASCADE of insight_history
HistoryAfterDelete(h, id) == SelectSeq(h, LAMBDA e : e.insight_id # id)

\* the row the INSERT of contribute writes at time t
InsertRow(input, t) ==
  [type |-> input.type, claim |-> input.claim, reasoning |-> input.reasoning,
   context |-> input.context, limitations |-> input.limitations,
   confidence |-> input.confidence,
   tags |-> OrElse(input.tags, << >>),
   source |-> input.source, condition |-> input.condition,
   avoid |-> IF OrElse(input.avoid, FALSE) THEN 1 ELSE 0,
   created_at |-> t, updated_at |-> t, reinforcement_count |-> 0,
   last_retrieved_at |-> NULL]

\* InsightHistory.recordCreate
recordCreate(h, hid, insight, t) ==
  Append(h, HistoryRow(hid, insight.id, "*", NULL, Some(insight.claim), "create", t, NULL))

\* InsightRepository.contribute, called within operation op whose second argument is
\* flag and which returns out beside the insight
ContributeAs(op, flag, input, out) ==
  IF ~CheckInsightRow(InsertRow(input, now))
  THEN /\ last' = Call(op, "constraint_error", 0, flag, input, << >>)
       /\ UNCHANGED <<insights, embeddings, history, nextId, nextHistoryId, now, budget,
                      procs, pending>>
  ELSE /\ nextId <= MaxInsights
       /\ nextHistoryId <= budget
       /\ \E t \in Clock :
            LET tbl == insights @@ (nextId :> InsertRow(input, t))
                insight == get(tbl, nextId)[1]
            IN  /\ insights' = tbl
                /\ history' = recordCreate(history, nextHistoryId, insight, t)
                /\ now' = t
       /\ nextId' = nextId + 1
       /\ nextHistoryId' = nextHistoryId + 1
       /\ last' = Call(op, "ok", nextId, flag, input, out)
       /\ UNCHANGED <<embeddings, budget, procs, pending>>

Contribute(input) == ContributeAs("contribute", 0, input, << >>)

\* an archive that raises not-found for an unknown id, as update and reinforce do
ArchiveThrowing(id) ==
  IF id \notin DOMAIN insights
  THEN /\ last' = Call("archive", "not_found", id, 0, << >>, << >>)
       /\ UNCHANGED <<insights, embeddings, history, nextId, nextHistoryId, now, budget,
                      procs, pending>>
  ELSE /\ insights' = Remove(insights, id)
       /\ embeddings' = EmbeddingsAfterDelete(embeddings, id)
       /\ history' = HistoryAfterDelete(history, id)
       /\ last' = Call("archive", "ok", id, 0, << >>, << >>)
       /\ UNCHANGED <<nextId, nextHistoryId, now, budget, procs, pending>>

\* InsightRepository.archive: DELETE FROM insights WHERE id = ?, with its cascades
Archive(id) ==
  /\ insights' = Remove(insights, id)
  /\ embeddings' = EmbeddingsAfterDelete(embeddings, id)
  /\ history' = HistoryAfterDelete(history, id)
  /\ last' = Call("archive", "ok", id, 0, << >>, << >>)
  /\ UNCHANGED <<nextId, nextHistoryId, now, budget, procs, pending>>

\* InsightRepository.CONFIDENCE_ADJUSTMENT_RATE = 0.05, in units of 1/Scale
CONFIDENCE_ADJUSTMENT_RATE == 500

\* a nudge by the whole rate, whatever the distance to 1.0
NewConfidenceFlatStep(oldConfidence) ==
  Min(Scale, oldConfidence + CONFIDENCE_ADJUSTMENT_RATE)

\* the nudged confidence of reinforce
NewConfidence(oldConfidence) ==
  Min(Scale, oldConfidence + Mul(Scale - oldConfidence, CONFIDENCE_ADJUSTMENT_RATE))

\* InsightHistory.recordReinforce
recordReinforce(h, hid, insightId, oldConfidence, newConfidence, newCount, t) ==
  Append(h, HistoryRow(hid, insightId, "confidence", Some(NumToText(oldConfidence)),
                       Some(NumToText(newConfidence)), "reinforce", t,
                       Some("reinforce:" \o IntToText(newCount))))

\* InsightRepository.reinforce
Reinforce(id) ==
  LET existing == get(insights, id) IN
  IF existing = NULL
  THEN /\ last' = Call("reinforce", "not_found", id, 0, << >>, << >>)
       /\ UNCHANGED <<insights, embeddings, history, nextId, nextHistoryId, now, budget,
                      procs, pending>>
  ELSE LET oldConfidence == existing[1].confidence
           newConfidence == NewConfidence(oldConfidence)
           newCount == existing[1].reinforcementCount + 1
       IN  /\ nextHistoryId <= budget
           /\ \E t \in Clock :
                /\ insights' = [insights EXCEPT ![id] =
                     [@ EXCEPT !.reinforcement_count = @ + 1,
                               !.confidence = newConfidence,
                               !.last_retrieved_at = Some(t),
                               !.updated_at = t]]
                /\ history' = recordReinforce(history, nextHistoryId, id, oldConfidence,
                                              newConfidence, newCount, t)
                /\ now' = t
           /\ nextHistoryId' = nextHistoryId + 1
           /\ last' = Call("reinforce", "ok", id, 0, << >>, << >>)
           /\ UNCHANGED <<embeddings, nextId, budget, procs, pending>>

(* reinforce run by a process instance of its own: the database commits each of its
   three statements by itself, and the statements of another process can come between *)
\* the SELECT of this.get(id); what a process reads it keeps for its later statements
ReinforceGet(p, id) ==
  /\ procs[p].pc = "idle"
  /\ IF get(insights, id) = NULL
     THEN /\ last' = Call("reinforce", "not_found", id, p, << >>, << >>)
          /\ UNCHANGED procs
     ELSE /\ nextHistoryId + Cardinality({q \in Procs : procs[q].pc # "idle"}) <= budget
          /\ procs' = [procs EXCEPT ![p] = [pc |-> "update", id |-> id,
                                            existing |-> get(insights, id)[1]]]
          /\ last' = Call("reinforce", "selected", id, p, << >>, << >>)
  /\ UNCHANGED <<insights, embeddings, history, nextId, nextHistoryId, now, budget, pending>>

\* the UPDATE: the count is incremented in the row, the confidence is the one computed
\* from what the process read
ReinforceUpdate(p) ==
  /\ procs[p].pc = "update"
  /\ \E t \in Clock :
       /\ insights' =
            IF procs[p].id \in DOMAIN insights
            THEN [insights EXCEPT ![procs[p].id] =
                    [@ EXCEPT !.reinforcement_count = @ + 1,
                              !.confidence = NewConfidence(procs[p].existing.confidence),
                              !.last_retrieved_at = Some(t),
                              !.updated_at = t]]
            ELSE insights
       /\ now' = t
  /\ procs' = [procs EXCEPT ![p].pc = "record"]
  /\ last' = Call("reinforce", "updated", procs[p].id, p, << >>, << >>)
  /\ UNCHANGED <<embeddings, history, nextId, nextHistoryId, budget, pending>>

\* the INSERT of recordReinforce, and the return
ReinforceRecord(p) ==
  /\ procs[p].pc = "record"
  /\ IF procs[p].id \in DOMAIN insights
     THEN /\ \E t \in Clock :
               /\ history' = recordReinforce(history, nextHistoryId, procs[p].id,
                                             procs[p].existing.confidence,
                                             NewConfidence(procs[p].existing.confidence),
                                             procs[p].existing.reinforcementCount + 1, t)
               /\ now' = t
          /\ nextHistoryId' = nextHistoryId + 1
          /\ last' = Call("reinforce", "ok", procs[p].id, p, << >>, << >>)
     ELSE /\ last' = Call("reinforce", "history_error", procs[p].id, p, << >>, << >>)
          /\ UNCHANGED <<history, nextHistoryId, now>>
  /\ procs' = [procs EXCEPT ![p] = IdleProcs[p]]
  /\ UNCHANGED <<insights, embeddings, nextId, budget, pending>>

\* the fields update can set, in the order the code tests them
UpdateFields ==
  <<"claim", "reasoning", "context", "limitations", "confidence", "tags", "source",
    "condition", "avoid">>

\* the value the SET clause of update binds for a supplied field
BoundValue(field, v) ==
  CASE field = "avoid" -> (IF v THEN 1 ELSE 0)
    [] field \in {"claim", "confidence", "tags"} -> v
    [] OTHER -> Some(v)

\* the old and new text update compares and records for a supplied field
ChangeOf(field, existing, v) ==
  CASE field = "claim" -> [old |-> existing.claim, new |-> v]
    [] field = "confidence" -> [old |-> NumToText(existing.confidence), new |-> NumToText(v)]
    [] field = "tags" -> [old |-> JSONstringify(existing.tags), new |-> JSONstringify(v)]
    [] field = "avoid" -> [old |-> BoolToText(existing.avoid), new |-> BoolToText(v)]
    [] OTHER -> [old |-> OrElse(existing[field], ""), new |-> v]

\* whether update sees the supplied value as different from the existing one
Differs(field, existing, v) ==
  CASE field \in {"claim", "confidence", "avoid"} -> v # existing[field]
    [] OTHER -> ChangeOf(field, existing, v).old # ChangeOf(field, existing, v).new

\* the supplied fields of an update input, in code order
Supplied(input) == SelectSeq(UpdateFields, LAMBDA f : input[f] # NULL)

\* the `changes` object of update: <<field, old, new>> per supplied field that differs
UpdateChanges(existing, input) ==
  LET diff == SelectSeq(Supplied(input), LAMBDA f : Differs(f, existing, input[f][1]))
  IN  [i \in 1..Len(diff) |->
         [field |-> diff[i],
          old |-> ChangeOf(diff[i], existing, input[diff[i]][1]).old,
          new |-> ChangeOf(diff[i], existing, input[diff[i]][1]).new]]

\* the row after an UPDATE that binds every text column, NULL for the absent ones
UpdatedRowAllColumns(row, input, t) ==
  [f \in DOMAIN row |->
     IF f = "updated_at" THEN t
     ELSE IF f \in {"reasoning", "context", "limitations", "source", "condition"}
          THEN (IF input[f] # NULL THEN Some(input[f][1]) ELSE NULL)
     ELSE IF f \in DOMAIN input /\ input[f] # NULL THEN BoundValue(f, input[f][1])
     ELSE row[f]]

\* the row after the UPDATE statement of update run at time t
UpdatedRow(row, input, t) ==
  [f \in DOMAIN row |->
     IF f = "updated_at" THEN t
     ELSE IF f \in DOMAIN input /\ input[f] # NULL THEN BoundValue(f, input[f][1])
     ELSE row[f]]

\* InsightHistory.recordUpdate / recordMerge: one row per entry of changes
RECURSIVE recordChanges(_, _, _, _, _, _, _)
recordChanges(h, hid, insightId, changes, changeType, source, t) ==
  IF changes = << >> THEN h
  ELSE recordChanges(
         Append(h, HistoryRow(hid, insightId, changes[1].field, Some(changes[1].old),
                              Some(changes[1].new), changeType, t, source)),
         hid + 1, insightId, Tail(changes), changeType, source, t)

\* InsightRepository.update
Update(id, input) ==
  LET existing == get(insights, id) IN
  IF existing = NULL
  THEN /\ last' = Call("update", "not_found", id, 0, << >>, << >>)
       /\ UNCHANGED <<insights, embeddings, history, nextId, nextHistoryId, now, budget,
                      procs, pending>>
  ELSE IF Supplied(input) = << >>
  THEN /\ last' = Call("update", "ok", id, 0, input, << >>)
       /\ UNCHANGED <<insights, embeddings, history, nextId, nextHistoryId, now, budget,
                      procs, pending>>
  ELSE IF ~CheckInsightRow(UpdatedRow(insights[id], input, now))
  THEN /\ last' = Call("update", "constraint_error", id, 0, input, << >>)
       /\ UNCHANGED <<insights, embeddings, history, nextId, nextHistoryId, now, budget,
                      procs, pending>>
  ELSE LET changes == UpdateChanges(existing[1], input) IN
       /\ nextHistoryId <= budget
       /\ \E t \in Clock :
            /\ insights' = [insights EXCEPT ![id] = UpdatedRow(@, input, t)]
            /\ history' = recordChanges(history, nextHistoryId, id, changes, "update",
                                        NULL, t)
            /\ now' = t
       /\ nextHistoryId' = nextHistoryId + Len(changes)
       /\ last' = Call("update", "ok", id, 0, input, << >>)
       /\ UNCHANGED <<embeddings, nextId, budget, procs, pending>>

\* [...new Set(xs)]: xs without repeats, first occurrences kept in order
RECURSIVE Dedupe(_)
Dedupe(xs) ==
  IF xs = << >> THEN << >>
  ELSE LET init == Dedupe(SubSeq(xs, 1, Len(xs) - 1))
           x == xs[Len(xs)]
       IN  IF \E i \in 1..Len(init) : init[i] = x THEN init ELSE Append(init, x)

(* the combined fields of merge *)
MergedConfidence(source, target) == Max(source.confidence, target.confidence)

\* the two tag lists one after the other
MergedTagsConcat(source, target) == target.tags \o source.tags

MergedTags(source, target) == Dedupe(target.tags \o source.tags)

\* the larger of the two counts
MergedReinforcementMax(source, target) ==
  Max(target.reinforcementCount, source.reinforcementCount)

MergedReinforcement(source, target) == target.reinforcementCount + source.reinforcementCount

\* a JavaScript string option is truthy when present and non-empty
Truthy(o) == o # NULL /\ o[1] # ""

MergedReasoning(source, target) ==
  IF Truthy(source.reasoning)
  THEN IF Truthy(target.reasoning)
       THEN Some(target.reasoning[1] \o "; " \o source.reasoning[1])
       ELSE source.reasoning
  ELSE target.reasoning

MergedClaim(target, claim) == OrElse(claim, target.claim)

\* the same checks, looking the source up before comparing the ids
MergeCheckSourceFirst(tbl, sourceId, targetId) ==
  IF get(tbl, sourceId) = NULL THEN "source_not_found"
  ELSE IF sourceId = targetId THEN "self_error"
  ELSE IF get(tbl, targetId) = NULL THEN "target_not_found"
  ELSE "ok"

\* the precondition checks of merge, in code order: "ok" or the error raised
MergeCheck(tbl, sourceId, targetId) ==
  IF sourceId = targetId THEN "self_error"
  ELSE IF get(tbl, sourceId) = NULL THEN "source_not_found"
  ELSE IF get(tbl, targetId) = NULL THEN "target_not_found"
  ELSE "ok"

\* the `mergeChanges` object of merge
MergeChanges(source, target, claim) ==
  LET mc == MergedClaim(target, claim)
      mf == MergedConfidence(source, target)
      mt == MergedTags(source, target)
      mr == MergedReinforcement(source, target)
      ms == MergedReasoning(source, target)
      all ==
        << [field |-> "claim", old |-> target.claim, new |-> mc, on |-> mc # target.claim],
           [field |-> "confidence", old |-> NumToText(target.confidence),
            new |-> NumToText(mf), on |-> mf # target.confidence],
           [field |-> "tags", old |-> JSONstringify(target.tags), new |-> JSONstringify(mt),
            on |-> JSONstringify(mt) # JSONstringify(target.tags)],
           [field |-> "reinforcement_count", old |-> IntToText(target.reinforcementCount),
            new |-> IntToText(mr), on |-> mr # target.reinforcementCount],
           [field |-> "reasoning", old |-> OrElse(target.reasoning, ""),
            new |-> OrElse(ms, ""), on |-> ms # target.reasoning] >>
      kept == SelectSeq(all, LAMBDA c : c.on)
  IN  [i \in 1..Len(kept) |-> [field |-> kept[i].field, old |-> kept[i].old, new |-> kept[i].new]]

\* the target row after the UPDATE statement of merge run at time t
MergedRow(row, source, target, claim, t) ==
  [row EXCEPT !.claim = MergedClaim(target, claim),
              !.confidence = MergedConfidence(source, target),
              !.tags = MergedTags(source, target),
              !.reinforcement_count = MergedReinforcement(source, target),
              !.reasoning = MergedReasoning(source, target),
              !.updated_at = t]

\* InsightRepository.merge; claim is options.claim, NULL when absent
Merge(sourceId, targetId, claim) ==
  LET check == MergeCheck(insights, sourceId, targetId) IN
  IF check # "ok"
  THEN /\ last' = Call("merge", check, sourceId, targetId, claim, << >>)
       /\ UNCHANGED <<insights, embeddings, history, nextId, nextHistoryId, now, budget,
                      procs, pending>>
  ELSE LET source == get(insights, sourceId)[1]
           target == get(insights, targetId)[1]
           changes == MergeChanges(source, target, claim)
           annotation == Some("merge:" \o IdToText(sourceId))
       IN  /\ nextHistoryId <= budget
           /\ \E t \in Clock :
                LET tbl == [insights EXCEPT ![targetId] = MergedRow(@, source, target, claim, t)]
                    h == recordChanges(history, nextHistoryId, targetId, changes, "merge",
                                       annotation, t)
                IN  /\ insights' = Remove(tbl, sourceId)
                    /\ embeddings' = EmbeddingsAfterDelete(embeddings, sourceId)
                    /\ history' = HistoryAfterDelete(h, sourceId)
                    /\ now' = t
           /\ nextHistoryId' = nextHistoryId + Len(changes)
           /\ last' = Call("merge", "ok", sourceId, targetId, claim, << >>)
           /\ UNCHANGED <<nextId, budget, procs, pending>>

(* The same operations when an INSERT INTO insight_history raises (disk full, I/O
   error, locked database): each statement commits on its own and no method catches,
   so the exception leaves the method at the failing statement. *)
\* contribute: the INSERT of the insight has run, recordCreate raises
ContributeLedgerFails(input) ==
  /\ CheckInsightRow(InsertRow(input, now))
  /\ nextId <= MaxInsights
  /\ \E t \in Clock :
       /\ insights' = insights @@ (nextId :> InsertRow(input, t))
       /\ now' = t
  /\ nextId' = nextId + 1
  /\ last' = Call("contribute", "history_error", nextId, 0, input, << >>)
  /\ UNCHANGED <<embeddings, history, nextHistoryId, budget, procs, pending>>

\* reinforce: the UPDATE has run, recordReinforce raises
ReinforceLedgerFails(id) ==
  /\ id \in DOMAIN insights
  /\ \E t \in Clock :
       /\ insights' = [insights EXCEPT ![id] =
            [@ EXCEPT !.reinforcement_count = @ + 1,
                      !.confidence = NewConfidence(insights[id].confidence),
                      !.last_retrieved_at = Some(t),
                      !.updated_at = t]]
       /\ now' = t
  /\ last' = Call("reinforce", "history_error", id, 0, << >>, << >>)
  /\ UNCHANGED <<embeddings, history, nextId, nextHistoryId, budget, procs, pending>>

\* update: the UPDATE has run, recordUpdate raises at the failAt-th entry of changes
UpdateLedgerFails(id, input, failAt) ==
  /\ id \in DOMAIN insights
  /\ Supplied(input) # << >>
  /\ CheckInsightRow(UpdatedRow(insights[id], input, now))
  /\ LET changes == UpdateChanges(get(insights, id)[1], input) IN
       /\ failAt \in 1..Len(changes)
       /\ nextHistoryId + failAt - 2 <= budget
       /\ \E t \in Clock :
            /\ insights' = [insights EXCEPT ![id] = UpdatedRow(@, input, t)]
            /\ history' = recordChanges(history, nextHistoryId, id,
                                        SubSeq(changes, 1, failAt - 1), "update", NULL, t)
            /\ now' = t
       /\ nextHistoryId' = nextHistoryId + failAt - 1
  /\ last' = Call("update", "history_error", id, 0, input, << >>)
  /\ UNCHANGED <<embeddings, nextId, budget, procs, pending>>

\* merge: the UPDATE of the target has run, recordMerge raises at the failAt-th entry
\* of mergeChanges, archive(sourceId) is not reached
MergeLedgerFails(sourceId, targetId, claim, failAt) ==
  /\ MergeCheck(insights, sourceId, targetId) = "ok"
  /\ LET source == get(insights, sourceId)[1]
         target == get(insights, targetId)[1]
         changes == MergeChanges(source, target, claim)
     IN  /\ failAt \in 1..Len(changes)
         /\ nextHistoryId + failAt - 2 <= budget
         /\ \E t \in Clock :
              /\ insights' = [insights EXCEPT ![targetId] =
                                MergedRow(@, source, target, claim, t)]
              /\ history' = recordChanges(history, nextHistoryId, targetId,
                                          SubSeq(changes, 1, failAt - 1), "merge",
                                          Some("merge:" \o IdToText(sourceId)), t)
              /\ now' = t
         /\ nextHistoryId' = nextHistoryId + failAt - 1
  /\ last' = Call("merge", "history_error", sourceId, targetId, claim, << >>)
  /\ UNCHANGED <<embeddings, nextId, budget, procs, pending>>

\* EmbeddingStore.upsert; the foreign key of insight_embeddings rejects unknown ids
UpsertEmbedding(id, vector) ==
  IF id \notin DOMAIN insights
  THEN /\ last' = Call("upsert", "constraint_error", id, 0, << >>, << >>)
       /\ UNCHANGED <<insights, embeddings, history, nextId, nextHistoryId, now, budget,
                      procs, pending>>
  ELSE /\ embeddings' =
            IF \E k \in 1..Len(embeddings) : embeddings[k].insight_id = id
            THEN [k \in 1..Len(embeddings) |->
                    IF embeddings[k].insight_id = id
                    THEN [embeddings[k] EXCEPT !.embedding = vector]
                    ELSE embeddings[k]]
            ELSE Append(embeddings, [insight_id |-> id, embedding |-> vector])
       /\ last' = Call("upsert", "ok", id, 0, vector, << >>)
       /\ UNCHANGED <<insights, history, nextId, nextHistoryId, now, budget, procs, pending>>

(* texts used as inputs of the operations *)
ClaimDirect == "Boss values directness and brevity"
ClaimVerbose == "Boss prefers detailed verbose explanations"
ClaimBrief == "boss values brevity"
ClaimTdd == "TDD means writing tests first"
TagBoss == "boss"
TagEfficiency == "efficiency"
TagCommunication == "communication"
TextWhy == "why"
TextHow == "how"
TextCtx == "ctx"
TextLim == "lim"
TextSrc == "src"
TextCond == "cond"

\* the characters of a claim text
Chars(text) ==
  CASE text = ClaimDirect ->
         <<"B", "o", "s", "s", " ", "v", "a", "l", "u", "e", "s", " ", "d", "i", "r", "e", "c", "t", "n", "e", "s", "s", " ", "a", "n", "d", " ", "b", "r", "e", "v", "i", "t", "y">>
    [] text = ClaimVerbose ->
         <<"B", "o", "s", "s", " ", "p", "r", "e", "f", "e", "r", "s", " ", "d", "e", "t", "a", "i", "l", "e", "d", " ", "v", "e", "r", "b", "o", "s", "e", " ", "e", "x", "p", "l", "a", "n", "a", "t", "i", "o", "n", "s">>
    [] text = ClaimBrief ->
         <<"b", "o", "s", "s", " ", "v", "a", "l", "u", "e", "s", " ", "b", "r", "e", "v", "i", "t", "y">>
    [] text = ClaimTdd ->
         <<"T", "D", "D", " ", "m", "e", "a", "n", "s", " ", "w", "r", "i", "t", "i", "n", "g", " ", "t", "e", "s", "t", "s", " ", "f", "i", "r", "s", "t">>
    [] text = "Boss values concise brief responses" ->
         <<"B", "o", "s", "s", " ", "v", "a", "l", "u", "e", "s", " ", "c", "o", "n", "c", "i", "s", "e", " ", "b", "r", "i", "e", "f", " ", "r", "e", "s", "p", "o", "n", "s", "e", "s">>
    [] text = "Boss likes coffee in the morning" ->
         <<"B", "o", "s", "s", " ", "l", "i", "k", "e", "s", " ", "c", "o", "f", "f", "e", "e", " ", "i", "n", " ", "t", "h", "e", " ", "m", "o", "r", "n", "i", "n", "g">>
    [] text = "Always ask before taking action" ->
         <<"A", "l", "w", "a", "y", "s", " ", "a", "s", "k", " ", "b", "e", "f", "o", "r", "e", " ", "t", "a", "k", "i", "n", "g", " ", "a", "c", "t", "i", "o", "n">>
    [] text = "Act first on clear tasks, explain later" ->
         <<"A", "c", "t", " ", "f", "i", "r", "s", "t", " ", "o", "n", " ", "c", "l", "e", "a", "r", " ", "t", "a", "s", "k", "s", ",", " ", "e", "x", "p", "l", "a", "i", "n", " ", "l", "a", "t", "e", "r">>
    [] text = "Be VERBOSE in explanations" ->
         <<"B", "e", " ", "V", "E", "R", "B", "O", "S", "E", " ", "i", "n", " ", "e", "x", "p", "l", "a", "n", "a", "t", "i", "o", "n", "s">>
    [] text = "be verbose in explanations" ->
         <<"b", "e", " ", "v", "e", "r", "b", "o", "s", "e", " ", "i", "n", " ", "e", "x", "p", "l", "a", "n", "a", "t", "i", "o", "n", "s">>
    [] text = "Keep things CONCISE" ->
         <<"K", "e", "e", "p", " ", "t", "h", "i", "n", "g", "s", " ", "C", "O", "N", "C", "I", "S", "E">>
    [] text = "Verbose or concise" ->
         <<"V", "e", "r", "b", "o", "s", "e", " ", "o", "r", " ", "c", "o", "n", "c", "i", "s", "e">>
    [] text = "CONCISE OR VERBOSE" ->
         <<"C", "O", "N", "C", "I", "S", "E", " ", "O", "R", " ", "V", "E", "R", "B", "O", "S", "E">>
    [] text = "A" ->
         <<"A">>
    [] text = "Go on" ->
         <<"G", "o", " ", "o", "n">>
    [] text = TextWhy -> <<"w", "h", "y">>
    [] text = TextHow -> <<"h", "o", "w">>
    [] text = TextCtx -> <<"c", "t", "x">>
    [] text = TextLim -> <<"l", "i", "m">>
    [] text = TextSrc -> <<"s", "r", "c">>
    [] text = TextCond -> <<"c", "o", "n", "d">>

(* ------------------- tables of the conflict detector ------------------ *)
TENSION_PAIRS ==
  << <<<<"v", "e", "r", "b", "o", "s", "e">>, <<"c", "o", "n", "c", "i", "s", "e">>>>,
     <<<<"v", "e", "r", "b", "o", "s", "e">>, <<"b", "r", "i", "e", "f">>>>,
     <<<<"v", "e", "r", "b", "o", "s", "e">>, <<"d", "i", "r", "e", "c", "t">>>>,
     <<<<"v", "e", "r", "b", "o", "s", "e">>, <<"e", "f", "f", "i", "c", "i", "e", "n", "t">>>>,
     <<<<"d", "e", "t", "a", "i", "l", "e", "d">>, <<"c", "o", "n", "c", "i", "s", "e">>>>,
     <<<<"d", "e", "t", "a", "i", "l", "e", "d">>, <<"b", "r", "i", "e", "f">>>>,
     <<<<"d", "e", "t", "a", "i", "l", "e", "d">>, <<"d", "i", "r", "e", "c", "t">>>>,
     <<<<"d", "e", "t", "a", "i", "l", "e", "d">>, <<"e", "f", "f", "i", "c", "i", "e", "n", "t">>>>,
     <<<<"t", "h", "o", "r", "o", "u", "g", "h">>, <<"c", "o", "n", "c", "i", "s", "e">>>>,
     <<<<"t", "h", "o", "r", "o", "u", "g", "h">>, <<"b", "r", "i", "e", "f">>>>,
     <<<<"e", "l", "a", "b", "o", "r", "a", "t", "e">>, <<"c", "o", "n", "c", "i", "s", "e">>>>,
     <<<<"e", "l", "a", "b", "o", "r", "a", "t", "e">>, <<"b", "r", "i", "e", "f">>>>,
     <<<<"l", "e", "n", "g", "t", "h", "y">>, <<"s", "h", "o", "r", "t">>>>,
     <<<<"w", "o", "r", "d", "y">>, <<"t", "e", "r", "s", "e">>>>,
     <<<<"w", "o", "r", "d", "y">>, <<"d", "i", "r", "e", "c", "t">>>>,
     <<<<"a", "s", "k">>, <<"a", "c", "t">>>>,
     <<<<"c", "a", "u", "t", "i", "o", "u", "s">>, <<"b", "o", "l", "d">>>>,
     <<<<"c", "a", "r", "e", "f", "u", "l">>, <<"f", "a", "s", "t">>>>,
     <<<<"s", "l", "o", "w">>, <<"f", "a", "s", "t">>>>,
     <<<<"d", "e", "l", "i", "b", "e", "r", "a", "t", "e">>, <<"q", "u", "i", "c", "k">>>>,
     <<<<"w", "a", "i", "t">>, <<"p", "r", "o", "c", "e", "e", "d">>>>,
     <<<<"h", "e", "s", "i", "t", "a", "t", "e">>, <<"d", "e", "c", "i", "s", "i", "v", "e">>>>,
     <<<<"p", "a", "s", "s", "i", "v", "e">>, <<"p", "r", "o", "a", "c", "t", "i", "v", "e">>>>,
     <<<<"f", "o", "r", "m", "a", "l">>, <<"c", "a", "s", "u", "a", "l">>>>,
     <<<<"f", "o", "r", "m", "a", "l">>, <<"i", "n", "f", "o", "r", "m", "a", "l">>>>,
     <<<<"p", "r", "o", "f", "e", "s", "s", "i", "o", "n", "a", "l">>, <<"c", "a", "s", "u", "a", "l">>>>,
     <<<<"p", "o", "l", "i", "t", "e">>, <<"b", "l", "u", "n", "t">>>>,
     <<<<"d", "i", "p", "l", "o", "m", "a", "t", "i", "c">>, <<"d", "i", "r", "e", "c", "t">>>>,
     <<<<"s", "t", "r", "i", "c", "t">>, <<"f", "l", "e", "x", "i", "b", "l", "e">>>>,
     <<<<"r", "i", "g", "i", "d">>, <<"a", "d", "a", "p", "t", "i", "v", "e">>>>,
     <<<<"c", "o", "n", "s", "e", "r", "v", "a", "t", "i", "v", "e">>, <<"a", "g", "g", "r", "e", "s", "s", "i", "v", "e">>>>,
     <<<<"m", "i", "n", "i", "m", "a", "l">>, <<"c", "o", "m", "p", "r", "e", "h", "e", "n", "s", "i", "v", "e">>>>,
     <<<<"s", "i", "m", "p", "l", "e">>, <<"c", "o", "m", "p", "l", "e", "x">>>>,
     <<<<"s", "i", "l", "e", "n", "t">>, <<"v", "o", "c", "a", "l">>>>,
     <<<<"q", "u", "i", "e", "t">>, <<"l", "o", "u", "d">>>>,
     <<<<"e", "x", "p", "l", "a", "i", "n">>, <<"e", "x", "e", "c", "u", "t", "e">>>>,
     <<<<"n", "a", "r", "r", "a", "t", "e">>, <<"s", "i", "l", "e", "n", "t">>>>,
     <<<<"t", "r", "a", "n", "s", "p", "a", "r", "e", "n", "t">>, <<"o", "p", "a", "q", "u", "e">>>>,
     <<<<"s", "a", "f", "e">>, <<"r", "i", "s", "k", "y">>>>,
     <<<<"c", "a", "u", "t", "i", "o", "u", "s">>, <<"a", "d", "v", "e", "n", "t", "u", "r", "o", "u", "s">>>>,
     <<<<"c", "a", "r", "e", "f", "u", "l">>, <<"r", "e", "c", "k", "l", "e", "s", "s">>>>,
     <<<<"i", "n", "d", "e", "p", "e", "n", "d", "e", "n", "t">>, <<"d", "e", "p", "e", "n", "d", "e", "n", "t">>>>,
     <<<<"a", "u", "t", "o", "n", "o", "m", "o", "u", "s">>, <<"s", "u", "p", "e", "r", "v", "i", "s", "e", "d">>>>,
     <<<<"i", "n", "i", "t", "i", "a", "t", "i", "v", "e">>, <<"p", "e", "r", "m", "i", "s", "s", "i", "o", "n">>>> >>

STEM_RULES ==
  << <<"n", "e", "s", "s">>,
     <<"i", "t", "y">>,
     <<"t", "i", "o", "n">>,
     <<"m", "e", "n", "t">>,
     <<"i", "n", "g">>,
     <<"l", "y">>,
     <<"o", "u", "s">>,
     <<"i", "v", "e">>,
     <<"f", "u", "l">>,
     <<"e", "d">>,
     <<"e", "r">>,
     <<"e", "s", "t">>,
     <<"a", "l">>,
     <<"s">> >>

STEM_MAP ==
  << <<<<"b", "r", "e", "v", "i", "t", "y">>, <<"b", "r", "i", "e", "f">>>>,
     <<<<"v", "e", "r", "b", "o", "s", "i", "t", "y">>, <<"v", "e", "r", "b", "o", "s", "e">>>>,
     <<<<"c", "a", "u", "t", "i", "o", "u", "s", "l", "y">>, <<"c", "a", "u", "t", "i", "o", "u", "s">>>>,
     <<<<"d", "e", "c", "i", "s", "i", "v", "e">>, <<"d", "e", "c", "i", "s", "i", "v", "e">>>>,
     <<<<"i", "n", "d", "e", "c", "i", "s", "i", "v", "e">>, <<"h", "e", "s", "i", "t", "a", "t", "e">>>>,
     <<<<"e", "f", "f", "i", "c", "i", "e", "n", "c", "y">>, <<"e", "f", "f", "i", "c", "i", "e", "n", "t">>>>,
     <<<<"f", "l", "e", "x", "i", "b", "i", "l", "i", "t", "y">>, <<"f", "l", "e", "x", "i", "b", "l", "e">>>>,
     <<<<"r", "i", "g", "i", "d", "i", "t", "y">>, <<"r", "i", "g", "i", "d">>>>,
     <<<<"f", "o", "r", "m", "a", "l", "i", "t", "y">>, <<"f", "o", "r", "m", "a", "l">>>>,
     <<<<"i", "n", "f", "o", "r", "m", "a", "l", "i", "t", "y">>, <<"i", "n", "f", "o", "r", "m", "a", "l">>>>,
     <<<<"c", "o", "m", "p", "l", "e", "x", "i", "t", "y">>, <<"c", "o", "m", "p", "l", "e", "x">>>>,
     <<<<"s", "i", "m", "p", "l", "i", "c", "i", "t", "y">>, <<"s", "i", "m", "p", "l", "e">>>>,
     <<<<"a", "s", "k", "i", "n", "g">>, <<"a", "s", "k">>>>,
     <<<<"a", "c", "t", "i", "n", "g">>, <<"a", "c", "t">>>>,
     <<<<"w", "a", "i", "t", "i", "n", "g">>, <<"w", "a", "i", "t">>>>,
     <<<<"p", "r", "o", "c", "e", "e", "d", "i", "n", "g">>, <<"p", "r", "o", "c", "e", "e", "d">>>> >>

(* ------------------------ conflict detector --------------------------- *)
UpperCase ==
  <<"A", "B", "C", "D", "E", "F", "G", "H", "I", "J", "K", "L", "M", "N", "O", "P", "Q",
    "R", "S", "T", "U", "V", "W", "X", "Y", "Z">>
LowerCase ==
  <<"a", "b", "c", "d", "e", "f", "g", "h", "i", "j", "k", "l", "m", "n", "o", "p", "q",
    "r", "s", "t", "u", "v", "w", "x", "y", "z">>

\* the characters the class \w matches
WordChars ==
  {UpperCase[i] : i \in 1..26} \cup {LowerCase[i] : i \in 1..26}
    \cup {Digit(d) : d \in 0..9} \cup {"_"}

\* String.prototype.toLowerCase on a sequence of characters
toLowerCase(chars) ==
  [k \in 1..Len(chars) |->
     IF \E i \in 1..26 : UpperCase[i] = chars[k]
     THEN LowerCase[CHOOSE i \in 1..26 : UpperCase[i] = chars[k]]
     ELSE chars[k]]

\* chars.split(/\W+/): piece is the piece being read, inGap tells that the previous
\* character belonged to a separator
RECURSIVE split(_, _, _)
split(chars, piece, inGap) ==
  IF chars = << >> THEN <<piece>>
  ELSE IF Head(chars) \in WordChars THEN split(Tail(chars), Append(piece, Head(chars)), FALSE)
  ELSE IF inGap THEN split(Tail(chars), piece, TRUE)
  ELSE <<piece>> \o split(Tail(chars), << >>, TRUE)

\* word.replace(/suffix$/, '')
replace(word, suffix) ==
  IF /\ Len(word) >= Len(suffix)
     /\ SubSeq(word, Len(word) - Len(suffix) + 1, Len(word)) = suffix
  THEN SubSeq(word, 1, Len(word) - Len(suffix))
  ELSE word

\* the loop of stem from rule k on: the first rule whose result has three characters or
\* more ends the loop, whether or not its pattern matched
RECURSIVE StemLoop(_, _)
StemLoop(result, k) ==
  IF k > Len(STEM_RULES) THEN result
  ELSE LET stemmed == replace(result, STEM_RULES[k])
       IN  IF Len(stemmed) >= 3 THEN stemmed ELSE StemLoop(result, k + 1)

\* stem
stem(word) ==
  LET hits == {i \in 1..Len(STEM_MAP) : STEM_MAP[i][1] = word}
  IN  IF hits # {} THEN STEM_MAP[CHOOSE i \in hits : TRUE][2] ELSE StemLoop(word, 1)

\* tokenize on the characters of a text: the lowercase words of more than two
\* characters, and their stems
tokenizeChars(chars) ==
  LET words == SelectSeq(split(toLowerCase(chars), << >>, FALSE),
                         LAMBDA w : Len(w) > 2)
  IN  {words[i] : i \in 1..Len(words)} \cup {stem(words[i]) : i \in 1..Len(words)}

\* tokenize
tokenize(text) == tokenizeChars(Chars(text))

\* the share of the words of a that are in b
jaccardOverFirst(a, b) ==
  IF Cardinality(a) = 0 THEN 0 ELSE RoundDiv(Cardinality(a \cap b) * Scale, Cardinality(a))

\* jaccardSimilarity of two word sets
jaccardSimilarity(a, b) ==
  LET intersection == Cardinality(a \cap b)
      union == Cardinality(a) + Cardinality(b) - intersection
  IN  IF union = 0 THEN 0 ELSE RoundDiv(intersection * Scale, union)

\* the 0.6 of the tension curve 1 - 1 / (1 + 0.6 * count)
TENSION_GROWTH == 6000

\* computeTensionScore looking for the first term in A and the second in B only
computeTensionScoreOneWay(claimA, claimB) ==
  LET wordsA == tokenize(claimA)
      wordsB == tokenize(claimB)
      foundPairs == SelectSeq(TENSION_PAIRS, LAMBDA p : p[1] \in wordsA /\ p[2] \in wordsB)
      rawScore == Scale - RoundDiv(Scale * Scale, Scale + TENSION_GROWTH * Len(foundPairs))
  IN  IF Len(foundPairs) = 0 THEN [score |-> 0, pairs |-> << >>]
      ELSE [score |-> Min(Scale, rawScore), pairs |-> foundPairs]

\* computeTensionScore
computeTensionScore(claimA, claimB) ==
  LET wordsA == tokenize(claimA)
      wordsB == tokenize(claimB)
      Found(p) ==
        LET aHas1 == p[1] \in wordsA
            aHas2 == p[2] \in wordsA
            bHas1 == p[1] \in wordsB
            bHas2 == p[2] \in wordsB
        IN  /\ (aHas1 /\ bHas2) \/ (aHas2 /\ bHas1)
            /\ ~(aHas1 /\ aHas2 /\ bHas1 /\ bHas2)
      foundPairs == SelectSeq(TENSION_PAIRS, Found)
      rawScore == Scale - RoundDiv(Scale * Scale, Scale + TENSION_GROWTH * Len(foundPairs))
  IN  IF Len(foundPairs) = 0 THEN [score |-> 0, pairs |-> << >>]
      ELSE [score |-> Min(Scale, rawScore), pairs |-> foundPairs]

\* the texts the claims of this model are made of
ClaimTexts == {ClaimDirect, ClaimVerbose, ClaimBrief, ClaimTdd}

\* tokenize and computeTensionScore on these texts, computed once per text
TokensOf == [text \in ClaimTexts |-> tokenize(text)]
TensionOf == [claimA \in ClaimTexts, claimB \in ClaimTexts |->
                computeTensionScore(claimA, claimB)]

\* Array.prototype.sort((a, b) => b[field] - a[field]): stable, non-increasing. An
\* element comes after the elements of greater key and the earlier ones of equal key
SortDescBy(rs, field) ==
  LET place == [k \in 1..Len(rs) |->
                  Cardinality({j \in 1..Len(rs) :
                                 \/ rs[j][field] > rs[k][field]
                                 \/ (rs[j][field] = rs[k][field] /\ j < k)}) + 1]
  IN  [p \in 1..Len(rs) |-> rs[CHOOSE k \in 1..Len(rs) : place[k] = p]]

\* Array.prototype.slice(0, end)
slice(xs, end) ==
  IF end >= 0 THEN SubSeq(xs, 1, Min(Len(xs), end))
  ELSE SubSeq(xs, 1, Max(0, Len(xs) + end))

\* InsightRepository.tokenize: the lowercase words of more than two characters
wordsOf(text) ==
  LET words == SelectSeq(split(toLowerCase(Chars(text)), << >>, FALSE),
                         LAMBDA w : Len(w) > 2)
  IN  {words[i] : i \in 1..Len(words)}

\* the default minSimilarity of findSimilar
DEFAULT_MIN_SIMILARITY == 2000

\* InsightRepository.findSimilar on the listing allInsights; excludeId is NULL when no
\* id is excluded
findSimilar(allInsights, claim, minSimilarity, excludeId) ==
  LET queryWords == wordsOf(claim)
      kept == SelectSeq(allInsights, LAMBDA insight :
                /\ excludeId # Some(insight.id)
                /\ jaccardSimilarity(queryWords, wordsOf(insight.claim)) >= minSimilarity)
      results == [k \in 1..Len(kept) |->
                    [insight |-> kept[k],
                     similarity |-> jaccardSimilarity(queryWords, wordsOf(kept[k].claim))]]
  IN  IF queryWords = {} THEN << >> ELSE SortDescBy(results, "similarity")

\* the defaults and weights of detectConflicts
DEFAULT_MIN_CONFLICT_SCORE == 1500
DEFAULT_MAX_CONFLICTS == 5
OVERLAP_THRESHOLD == 3000
SIMILARITY_WEIGHT == 3000
TENSION_WEIGHT == 7000

\* the score with the two weights exchanged
ConflictScoreSwapped(similarity, tensionScore) ==
  Mul(similarity, TENSION_WEIGHT) + Mul(tensionScore, SIMILARITY_WEIGHT)

\* conflictScore = similarity * 0.3 + tension.score * 0.7
ConflictScore(similarity, tensionScore) ==
  Mul(similarity, SIMILARITY_WEIGHT) + Mul(tensionScore, TENSION_WEIGHT)

\* DetectConflictsOptions with no field set
NoOptions == [minConflictScore |-> NULL, maxResults |-> NULL]

\* detectConflicts on allInsights, the result of repo.list(). tensionReason is kept as
\* the list of matched pairs the text is made of (empty for the fixed text)
detectConflicts(allInsights, input, options) ==
  LET minConflictScore == OrElse(options.minConflictScore, DEFAULT_MIN_CONFLICT_SCORE)
      maxResults == OrElse(options.maxResults, DEFAULT_MAX_CONFLICTS)
      inputWords == TokensOf[input.claim]
      Result(insight) ==
        LET similarity == jaccardSimilarity(inputWords, TokensOf[insight.claim])
            tension == TensionOf[input.claim, insight.claim]
        IN  [insight |-> insight, similarity |-> similarity, tensionScore |-> tension.score,
             tensionReason |-> tension.pairs,
             conflictScore |-> ConflictScore(similarity, tension.score)]
      all == [k \in 1..Len(allInsights) |-> Result(allInsights[k])]
      results == SelectSeq(all, LAMBDA r :
                   /\ ~(r.tensionScore = 0 /\ r.similarity < OVERLAP_THRESHOLD)
                   /\ ~(r.conflictScore < minConflictScore))
  IN  slice(SortDescBy(results, "conflictScore"), maxResults)

\* a contributeWithCheck that looks for conflicts after the insert
ContributeWithCheckAfter(input, force) ==
  LET tbl == insights @@ (nextId :> InsertRow(input, now)) IN
  \E allInsights \in list(IF CheckInsightRow(InsertRow(input, now)) THEN tbl ELSE insights) :
    ContributeAs("contributeWithCheck", IF force THEN 1 ELSE 0, input,
                 IF force THEN << >> ELSE detectConflicts(allInsights, input, NoOptions))

\* InsightRepository.contributeWithCheck
ContributeWithCheck(input, force) ==
  \E allInsights \in list(insights) :
    ContributeAs("contributeWithCheck", IF force THEN 1 ELSE 0, input,
                 IF force THEN << >> ELSE detectConflicts(allInsights, input, NoOptions))

(* --------------------------- retrieval engine ------------------------- *)
\* the largest r between lo and hi with r * r <= m, given lo * lo <= m < hi * hi
RECURSIVE SqrtBetween(_, _, _)
SqrtBetween(m, lo, hi) ==
  IF hi - lo <= 1 THEN lo
  ELSE LET mid == (lo + hi) \div 2
       IN  IF mid * mid <= m THEN SqrtBetween(m, mid, hi) ELSE SqrtBetween(m, lo, mid)

\* Math.sqrt of the integer n (n <= 21), rounded to the nearest representable number
Sqrt(n) ==
  LET m == n * Scale * Scale
      r == SqrtBetween(m, 0, 46340)
  IN  IF m - r * r <= r THEN r ELSE r + 1

\* the sum of a[i] * b[i]
RECURSIVE Dot(_, _)
Dot(a, b) == IF a = << >> THEN 0 ELSE Head(a) * Head(b) + Dot(Tail(a), Tail(b))

\* EmbeddingStore.cosineSimilarity of two vectors of the same length, whose components
\* are small integers
cosineSimilarity(a, b) ==
  LET denom == Mul(Sqrt(Dot(a, a)), Sqrt(Dot(b, b)))
  IN  IF denom = 0 THEN 0 ELSE RoundDiv(Dot(a, b) * Scale * Scale, denom)

\* EmbeddingStore.findNearest over rows, the rows of insight_embeddings
findNearest(rows, query, maxResults) ==
  LET scored == [k \in 1..Len(rows) |->
                   [insightId |-> rows[k].insight_id,
                    similarity |-> cosineSimilarity(query, rows[k].embedding)]]
  IN  slice(SortDescBy(scored, "similarity"), maxResults)

\* Math.log2(n) for n in 2..8
Log2(n) == <<10000, 15850, 20000, 23219, 25850, 28074, 30000>>[n - 1]

\* the reinforcement factor of retrieve, and one that takes the logarithm of count + 1
reinforcementFactorPlusOne(insight) ==
  IF insight.reinforcementCount = 0 THEN 0 ELSE Log2(insight.reinforcementCount + 1)
reinforcementFactor(insight) == Log2(insight.reinforcementCount + 2)

\* the defaults of retrieve
DEFAULT_MAX_RESULTS == 15
NEAREST_CANDIDATES == 100

\* RetrieveOptions with no field set
NoRetrieveOptions ==
  [maxResults |-> NULL, minConfidence |-> NULL, types |-> NULL, typeBoosts |-> NULL]

\* the filters without the confidence threshold
PassesTypesOnly(insight, options) ==
  ~(/\ options.types # NULL
    /\ Len(options.types[1]) > 0
    /\ \A j \in 1..Len(options.types[1]) : options.types[1][j] # insight.type)

\* the filters of retrieve: TRUE for the insights that are scored
PassesFilters(insight, options) ==
  /\ ~(options.minConfidence # NULL /\ insight.confidence < options.minConfidence[1])
  /\ ~(/\ options.types # NULL
       /\ Len(options.types[1]) > 0
       /\ \A j \in 1..Len(options.types[1]) : options.types[1][j] # insight.type)

\* RetrievalEngine.retrieve over the tables tbl (insights) and rows (insight_embeddings)
retrieve(tbl, rows, queryEmbedding, options) ==
  LET maxResults == OrElse(options.maxResults, DEFAULT_MAX_RESULTS)
      typeBoosts == OrElse(options.typeBoosts, << >>)
      nearest == findNearest(rows, queryEmbedding, NEAREST_CANDIDATES)
      kept == SelectSeq(nearest, LAMBDA n :
                /\ get(tbl, n.insightId) # NULL
                /\ PassesFilters(get(tbl, n.insightId)[1], options))
      Scored(n) ==
        LET insight == get(tbl, n.insightId)[1]
            typeBoost == IF insight.type \in DOMAIN typeBoosts THEN typeBoosts[insight.type]
                         ELSE Scale
        IN  [insight |-> insight, similarity |-> n.similarity,
             score |-> Mul(Mul(Mul(n.similarity, insight.confidence),
                               reinforcementFactor(insight)), typeBoost)]
      scored == [k \in 1..Len(kept) |-> Scored(kept[k])]
  IN  slice(SortDescBy(scored, "score"), maxResults)

\* a call of RetrievalEngine.retrieve; cosineSimilarity throws on a stored vector whose
\* length differs from the query's
\* a retrieve that marks every stored insight as retrieved
RetrieveMarking(queryEmbedding, options) ==
  /\ insights' = [id \in DOMAIN insights |->
                    [insights[id] EXCEPT !.last_retrieved_at = Some(now),
                                         !.reinforcement_count = @ + 1]]
  /\ last' = Call("retrieve", "ok", 0, 0,
                  [queryEmbedding |-> queryEmbedding, options |-> options],
                  retrieve(insights, embeddings, queryEmbedding, options))
  /\ UNCHANGED <<embeddings, history, nextId, nextHistoryId, now, budget, procs, pending>>

Retrieve(queryEmbedding, options) ==
  /\ last' =
       IF \E k \in 1..Len(embeddings) : Len(embeddings[k].embedding) # Len(queryEmbedding)
       THEN Call("retrieve", "dimension_error", 0, 0,
                 [queryEmbedding |-> queryEmbedding, options |-> options], << >>)
       ELSE Call("retrieve", "ok", 0, 0,
                 [queryEmbedding |-> queryEmbedding, options |-> options],
                 retrieve(insights, embeddings, queryEmbedding, options))
  /\ UNCHANGED <<insights, embeddings, history, nextId, nextHistoryId, now, budget,
                 procs, pending>>

\* the scoring of the CLI retrieve command: every listed insight, by confidence,
\* reinforcement and type boost, with similarity 1.0
fallbackScore(allInsights, typeBoosts, maxResults) ==
  LET Scored(insight) ==
        LET typeBoost == IF insight.type \in DOMAIN typeBoosts THEN typeBoosts[insight.type]
                         ELSE Scale
            factor == Log2(insight.reinforcementCount + 2)
        IN  [insight |-> insight, similarity |-> Scale,
             score |-> Mul(Mul(insight.confidence, factor), typeBoost)]
      scoredInsights == [k \in 1..Len(allInsights) |-> Scored(allInsights[k])]
  IN  slice(SortDescBy(scoredInsights, "score"), maxResults)

\* the CLI command retrieve, up to the list it hands to marshal: it lists the store
\* and scores every insight without looking at the embeddings
RetrieveCommand(typeBoosts, maxResults) ==
  /\ \E allInsights \in list(insights) :
       last' = Call("retrieveCommand", "ok", 0, 0,
                    [typeBoosts |-> typeBoosts, maxResults |-> maxResults],
                    IF Len(allInsights) = 0 THEN << >>
                    ELSE fallbackScore(allInsights, typeBoosts, maxResults))
  /\ UNCHANGED <<insights, embeddings, history, nextId, nextHistoryId, now, budget,
                 procs, pending>>

(* ------------------------------ inputs -------------------------------- *)
\* a two-dimensional embedding vector
Vectors == {<<1, 0>>}

BaseInput ==
  [type |-> "behavioral", claim |-> ClaimDirect, reasoning |-> NULL, context |-> NULL,
   limitations |-> NULL, confidence |-> 8000, tags |-> NULL, source |-> NULL,
   condition |-> NULL, avoid |-> NULL]

\* the ContributeInput objects the calls are made with
ValidInputs ==
  { [BaseInput EXCEPT !.tags = Some(<<TagBoss, TagEfficiency>>),
                      !.reasoning = Some(TextWhy), !.context = Some(TextCtx)],
    [BaseInput EXCEPT !.type = "relational", !.claim = ClaimVerbose, !.confidence = 9000,
                      !.tags = Some(<<TagCommunication, TagEfficiency>>),
                      !.reasoning = Some(TextHow), !.source = Some(TextSrc),
                      !.limitations = Some(TextLim)] }

InvalidInputs ==
  { [BaseInput EXCEPT !.type = "mood"],
    [BaseInput EXCEPT !.confidence = Scale + 5000] }

ContributeInputs == ValidInputs \cup InvalidInputs

NoUpdate ==
  [claim |-> NULL, reasoning |-> NULL, context |-> NULL, limitations |-> NULL,
   confidence |-> NULL, tags |-> NULL, source |-> NULL, condition |-> NULL, avoid |-> NULL]

\* the UpdateInput objects the calls are made with
UpdateInputs ==
  { NoUpdate,
    [NoUpdate EXCEPT !.claim = Some(ClaimVerbose)],
    [NoUpdate EXCEPT !.confidence = Some(-1000), !.claim = Some(ClaimBrief)],
    [NoUpdate EXCEPT !.confidence = Some(Scale), !.reasoning = Some(""),
                     !.tags = Some(<<TagBoss, TagBoss>>)] }

\* the claim overrides merge is called with
MergeClaims == {NULL, Some(ClaimBrief)}

(* --------------------------- specification ---------------------------- *)
Init ==
  /\ insights = << >>
  /\ embeddings = << >>
  /\ history = << >>
  /\ nextId = 1
  /\ nextHistoryId = 1
  /\ now = 0
  /\ budget = MaxHistory
  /\ procs = IdleProcs
  /\ pending = NoFile
  /\ last = Call("init", "ok", 0, 0, << >>, << >>)

Next ==
  \/ \E input \in ContributeInputs : Contribute(input)
  \/ \E id \in Ids, input \in UpdateInputs : Update(id, input)
  \/ \E id \in Ids : Reinforce(id)
  \/ \E sourceId \in Ids, targetId \in Ids, claim \in MergeClaims :
       Merge(sourceId, targetId, claim)
  \/ \E id \in Ids : Archive(id)
  \/ \E id \in Ids, vector \in Vectors : UpsertEmbedding(id, vector)

Spec == Init /\ [][Next]_vars

(* ------------------- chains of reinforcements ------------------------- *)
\* the confidences a chain starts from: the twentieths of [0,1] and the values just
\* below 1.0
ChainStarts == {k * 500 : k \in 0..20} \cup {Scale - j : j \in 1..12}

\* one contributed insight, about to be reinforced up to ChainLen times
InitReinforce ==
  \E c \in ChainStarts :
    LET input == [BaseInput EXCEPT !.confidence = c]
        tbl == 1 :> InsertRow(input, 0)
    IN  /\ insights = tbl
        /\ embeddings = << >>
        /\ history = recordCreate(<< >>, 1, get(tbl, 1)[1], 0)
        /\ nextId = 2
        /\ nextHistoryId = 2
        /\ now = 0
        /\ budget = ChainLen + 1
        /\ procs = IdleProcs
        /\ pending = NoFile
        /\ last = Call("contribute", "ok", 1, 0, input, << >>)

NextReinforce == \E id \in Ids : Reinforce(id)

SpecReinforce == InitReinforce /\ [][NextReinforce]_vars

(* ------------------------------ merges -------------------------------- *)
\* the ContributeInput objects of the merge specification: the two of the merge test
\* and one without reasoning and tags
MergeInputs ==
  ValidInputs \cup {[BaseInput EXCEPT !.claim = ClaimBrief, !.confidence = 9000]}

InitMerge ==
  /\ insights = << >>
  /\ embeddings = << >>
  /\ history = << >>
  /\ nextId = 1
  /\ nextHistoryId = 1
  /\ now = 0
  /\ budget = MaxMergeHistory
  /\ procs = IdleProcs
  /\ pending = NoFile
  /\ last = Call("init", "ok", 0, 0, << >>, << >>)

NextMerge ==
  \/ \E input \in MergeInputs : Contribute(input)
  \/ \E id \in Ids : Reinforce(id)
  \/ \E id \in Ids, vector \in Vectors : UpsertEmbedding(id, vector)
  \/ \E sourceId \in Ids, targetId \in Ids, claim \in MergeClaims :
       Merge(sourceId, targetId, claim)

SpecMerge == InitMerge /\ [][NextMerge]_vars

(* ----------------------- checked contributions ------------------------ *)
\* the ContributeInput objects of the specification of contributeWithCheck: claims that
\* are in tension, that overlap, and that share nothing, and the two rejected inputs
CheckInputs ==
  MergeInputs \cup {[BaseInput EXCEPT !.type = "skill", !.claim = ClaimTdd]}
    \cup InvalidInputs

NextCheck ==
  \/ \E input \in CheckInputs, force \in BOOLEAN : ContributeWithCheck(input, force)
  \/ \E input \in ValidInputs : Contribute(input)
  \/ \E id \in Ids : Archive(id)

SpecCheck == Init /\ [][NextCheck]_vars

(* ------------------------ conflict detection -------------------------- *)
\* the largest corpus detectConflicts is run on
MaxCorpus == 6

\* the claims of the corpus and of the candidates
CorpusClaims == <<ClaimDirect, ClaimVerbose, ClaimBrief, ClaimTdd>>

\* the i-th insight of a corpus that runs through CorpusClaims from first in steps of
\* step, contributed at time t
CorpusInput(i, first, step) ==
  [BaseInput EXCEPT !.claim = CorpusClaims[((first + step * i) % Len(CorpusClaims)) + 1]]

\* a store of n contributed insights, contributed in n different seconds (spread) or
\* all within the same second
InitConflicts ==
  \E n \in 0..MaxCorpus, first \in 0..3, step \in 0..3, spread \in BOOLEAN :
    LET At(i) == IF spread THEN i ELSE 0
        tbl == [i \in 1..n |-> InsertRow(CorpusInput(i, first, step), At(i))]
    IN  /\ spread \/ n <= 3
        /\ insights = tbl
        /\ embeddings = << >>
        /\ history = [i \in 1..n |->
                        HistoryRow(i, i, "*", NULL, Some(tbl[i].claim), "create", At(i), NULL)]
        /\ nextId = n + 1
        /\ nextHistoryId = n + 1
        /\ now = At(n)
        /\ budget = n
        /\ procs = IdleProcs
        /\ pending = NoFile
        /\ last = Call("init", "ok", 0, 0, << >>, << >>)

\* the DetectConflictsOptions the calls are made with
ConflictOptions ==
  [minConflictScore : {NULL, Some(0), Some(3000), Some(5215)},
   maxResults : {NULL, Some(0), Some(1), Some(2)}]

\* a call of detectConflicts(repo, input, options)
DetectConflicts(input, options) ==
  /\ \E allInsights \in list(insights) :
       last' = Call("detectConflicts", "ok", 0, 0, [input |-> input, options |-> options],
                    detectConflicts(allInsights, input, options))
  /\ UNCHANGED <<insights, embeddings, history, nextId, nextHistoryId, now, budget,
                 procs, pending>>

\* one call on each corpus: a call changes nothing a later call could see
NextConflicts ==
  /\ last.op = "init"
  /\ \E c \in 1..Len(CorpusClaims), options \in ConflictOptions :
       DetectConflicts([BaseInput EXCEPT !.claim = CorpusClaims[c]], options)

SpecConflicts == InitConflicts /\ [][NextConflicts]_vars

(* ----------------------------- retrievals ----------------------------- *)
\* the largest store retrieve is run on
MaxStored == 16

\* the types and the embedding vectors of the stored insights
StoredTypes == <<"behavioral", "skill", "relational">>
StoredVectors == << <<1, 0>>, <<0, 1>>, <<1, 1>>, <<2, 1>>, <<-1, 0>> >>

\* the i-th insight of a store: its input, the times it was reinforced, its vector
StoredInput(i, shift) ==
  [BaseInput EXCEPT !.type = StoredTypes[(i % 3) + 1],
                    !.confidence = 1000 * (((3 * i + shift) % 10) + 1)]
StoredCount(i, shift) == (i + shift) % 3
StoredVector(i, shift) == StoredVectors[((i + shift) % 5) + 1]

\* the confidence after k reinforcements of an insight contributed at c
RECURSIVE Reinforced(_, _)
Reinforced(c, k) == IF k = 0 THEN c ELSE NewConfidence(Reinforced(c, k - 1))

\* the ledger after contributing insights 1..n and then reinforcing insights 1..i: the
\* create rows, then the rows of the reinforcements of insight 1, of insight 2, ...
StoredHistory(n, shift, i) ==
  LET before == [m \in 1..i |->
                   Cardinality({p \in (1..(m - 1)) \X (1..2) : p[2] <= StoredCount(p[1], shift)})]
      rows == Cardinality({p \in (1..i) \X (1..2) : p[2] <= StoredCount(p[1], shift)})
      Reinforcement(k) ==
        LET p == CHOOSE p \in (1..i) \X (1..2) :
                   p[2] <= StoredCount(p[1], shift) /\ before[p[1]] + p[2] = k
            c == StoredInput(p[1], shift).confidence
        IN  recordReinforce(<< >>, n + k, p[1], Reinforced(c, p[2] - 1), Reinforced(c, p[2]),
                            p[2], 0)[1]
  IN  [k \in 1..(n + rows) |->
         IF k <= n
         THEN HistoryRow(k, k, "*", NULL, Some(StoredInput(k, shift).claim), "create", 0, NULL)
         ELSE Reinforcement(k - n)]

\* a store of n insights, contributed, embedded (all, or all but every fourth) and
\* reinforced
InitStore(sizes) ==
  \E n \in sizes, shift \in 0..2, holes \in BOOLEAN :
    LET Row(i) ==
          [InsertRow(StoredInput(i, shift), 0) EXCEPT
             !.confidence = Reinforced(@, StoredCount(i, shift)),
             !.reinforcement_count = StoredCount(i, shift),
             !.last_retrieved_at = IF StoredCount(i, shift) > 0 THEN Some(0) ELSE NULL]
        embedded == SelectSeq([i \in 1..n |-> i], LAMBDA i : ~(holes /\ i % 4 = 0))
    IN  /\ insights = [i \in 1..n |-> Row(i)]
        /\ embeddings = [k \in 1..Len(embedded) |->
                           [insight_id |-> embedded[k],
                            embedding |-> StoredVector(embedded[k], shift)]]
        /\ history = StoredHistory(n, shift, n)
        /\ nextId = n + 1
        /\ nextHistoryId = Len(StoredHistory(n, shift, n)) + 1
        /\ now = 0
        /\ budget = Len(StoredHistory(n, shift, n))
        /\ procs = IdleProcs
        /\ pending = NoFile
        /\ last = Call("init", "ok", 0, 0, << >>, << >>)

InitRetrieve == InitStore(0..MaxStored)

\* the query vectors and RetrieveOptions the calls are made with
RetrieveQueries == {<<1, 0>>, <<1, 1>>, <<0, 0>>, <<1, 0, 0>>}
RetrieveOptionSets ==
  [maxResults : {NULL, Some(0), Some(2)},
   minConfidence : {NULL, Some(6000)},
   types : {NULL, Some(<< >>), Some(<<"skill", "behavioral">>)},
   typeBoosts : {NULL, Some("skill" :> 20000)}]

\* one call on each store: a call changes nothing a later call could see
NextRetrieve ==
  /\ last.op = "init"
  /\ \E queryEmbedding \in RetrieveQueries, options \in RetrieveOptionSets :
       Retrieve(queryEmbedding, options)

SpecRetrieve == InitRetrieve /\ [][NextRetrieve]_vars

(* ------------------- retrieve on more than 100 rows ------------------- *)
\* the largest store of this specification, beyond the 100 rows retrieve asks
\* findNearest for
MaxShortlisted == 102

\* stores just below, at and above the 100 rows
InitShortlist == InitStore((MaxShortlisted - 3)..MaxShortlisted)

\* one call on each store, with the default result cap and one above the store's size
NextShortlist ==
  /\ last.op = "init"
  /\ \E queryEmbedding \in {<<1, 0>>, <<1, 1>>}, maxResults \in {NULL, Some(120)},
        minConfidence \in {NULL, Some(6000)} :
       Retrieve(queryEmbedding, [NoRetrieveOptions EXCEPT !.maxResults = maxResults,
                                                         !.minConfidence = minConfidence])

SpecShortlist == InitShortlist /\ [][NextShortlist]_vars

(* --------------------- reinforce in two processes --------------------- *)
\* insights are contributed and reinforced by two process instances, statement by
\* statement
NextConcurrent ==
  \/ Contribute(BaseInput)
  \/ \E p \in Procs, id \in Ids : ReinforceGet(p, id)
  \/ \E p \in Procs : ReinforceUpdate(p)
  \/ \E p \in Procs : ReinforceRecord(p)

SpecConcurrent == Init /\ [][NextConcurrent]_vars

(* --------------------------- session hook ----------------------------- *)
\* the first n elements
sliceFirst(xs, n) == SubSeq(xs, 1, Min(Len(xs), n))

\* Array.prototype.slice(-n)
sliceLast(xs, n) == SubSeq(xs, Max(1, Len(xs) - n + 1), Len(xs))

\* handleSessionReset: the file it writes, given the file it finds, the event and the
\* time. A file is missing, unparsable, or holds a JSON value that is an array or not
handleSessionReset(file, event, t) ==
  LET marker == [sessionKey |-> IF Truthy(event.sessionKey) THEN event.sessionKey[1]
                                ELSE "unknown",
                 timestamp |-> t,
                 reason |-> event.action]
      parsed == IF file.kind = "array" THEN file.value ELSE << >>
      pushed == Append(parsed, marker)
  IN  [kind |-> "array",
       value |-> IF Len(pushed) > 10 THEN sliceLast(pushed, 10) ELSE pushed]

\* handler: the hook's entry point. A bootstrap event does not touch the file
Handler(event) ==
  /\ IF event.type = "command" /\ event.action \in {"new", "reset"}
     THEN \E t \in Clock :
            /\ pending' = handleSessionReset(pending, event, t)
            /\ now' = t
     ELSE UNCHANGED <<pending, now>>
  /\ last' = Call("handler", "ok", 0, 0, event, << >>)
  /\ UNCHANGED <<insights, embeddings, history, nextId, nextHistoryId, budget, procs>>

\* the hook starts on a file that is missing, is not JSON, holds an object, or holds an
\* array of eleven markers written before
InitHook ==
  /\ insights = << >>
  /\ embeddings = << >>
  /\ history = << >>
  /\ nextId = 1
  /\ nextHistoryId = 1
  /\ now = 0
  /\ budget = 0
  /\ procs = IdleProcs
  /\ pending \in {NoFile,
                  [kind |-> "unparsable", value |-> << >>],
                  [kind |-> "object", value |-> << >>],
                  [kind |-> "array",
                   value |-> [k \in 1..11 |-> [sessionKey |-> "old", timestamp |-> 0,
                                               reason |-> "new"]]]}
  /\ last = Call("init", "ok", 0, 0, << >>, << >>)

\* the events: a new session with a key, a reset without one, a bootstrap, and a
\* command the hook ignores
NextHook ==
  \E event \in {[type |-> "command", action |-> "new", sessionKey |-> Some("main")],
                [type |-> "command", action |-> "reset", sessionKey |-> NULL],
                [type |-> "agent", action |-> "bootstrap", sessionKey |-> Some("main")],
                [type |-> "command", action |-> "stop", sessionKey |-> Some("main")]} :
    Handler(event)

SpecHook == InitHook /\ [][NextHook]_vars

(* ------------------------- scores of retrieve ------------------------- *)
\* insights are contributed at two confidences, the second the first after one
\* reinforcement, embedded, reinforced and retrieved
NextScore ==
  \/ \E input \in {BaseInput, [BaseInput EXCEPT !.confidence = NewConfidence(8000)],
                    [BaseInput EXCEPT !.type = "skill"]} : Contribute(input)
  \/ \E id \in Ids, vector \in {<<1, 0>>, <<1, 1>>} : UpsertEmbedding(id, vector)
  \/ \E id \in Ids : Reinforce(id)
  \/ \E queryEmbedding \in {<<1, 0>>, <<2, 1>>},
        typeBoosts \in {NULL, Some("skill" :> 20000), Some("behavioral" :> 0)} :
       Retrieve(queryEmbedding, [NoRetrieveOptions EXCEPT !.typeBoosts = typeBoosts])

SpecScore == Init /\ [][NextScore]_vars

(* -------------------- ownership of dependent rows --------------------- *)
\* the vectors of the upsert tests
UpsertVectors == {<<1, 2>>, <<3, 4>>}

NextOwnership ==
  \/ \E input \in ValidInputs : Contribute(input)
  \/ \E id \in Ids, vector \in UpsertVectors : UpsertEmbedding(id, vector)
  \/ \E id \in Ids, input \in UpdateInputs : Update(id, input)
  \/ \E id \in Ids : Reinforce(id)
  \/ \E sourceId \in Ids, targetId \in Ids, claim \in MergeClaims :
       Merge(sourceId, targetId, claim)
  \/ \E id \in Ids : Archive(id)

SpecOwnership == Init /\ [][NextOwnership]_vars

(* ------------------------ reinforcement counts ------------------------ *)
MaxCountHistory == 5

InitCounts ==
  /\ insights = << >>
  /\ embeddings = << >>
  /\ history = << >>
  /\ nextId = 1
  /\ nextHistoryId = 1
  /\ now = 0
  /\ budget = MaxCountHistory
  /\ procs = IdleProcs
  /\ pending = NoFile
  /\ last = Call("init", "ok", 0, 0, << >>, << >>)

\* the updates of the count specification: claim and confidence, valid and invalid
CountUpdates ==
  { [NoUpdate EXCEPT !.claim = Some(ClaimVerbose)],
    [NoUpdate EXCEPT !.confidence = Some(-1000), !.claim = Some(ClaimBrief)] }

NextCounts ==
  \/ \E input \in ValidInputs : Contribute(input)
  \/ \E id \in Ids : Reinforce(id)
  \/ \E id \in Ids, input \in CountUpdates : Update(id, input)
  \/ \E sourceId \in Ids, targetId \in Ids : Merge(sourceId, targetId, NULL)
  \/ \E id \in Ids : Archive(id)

SpecCounts == InitCounts /\ [][NextCounts]_vars

(* ------------------------ the ledger's entries ------------------------ *)
\* contribute with and without the optional texts, then update, reinforce and merge
NextLedger ==
  \/ \E input \in MergeInputs : Contribute(input)
  \/ \E id \in Ids, input \in UpdateInputs : Update(id, input)
  \/ \E id \in Ids : Reinforce(id)
  \/ \E sourceId \in Ids, targetId \in Ids, claim \in MergeClaims :
       Merge(sourceId, targetId, claim)

SpecLedger == Init /\ [][NextLedger]_vars

(* --------------------- failing ledger writes -------------------------- *)
\* the positions in `changes` at which a ledger INSERT can raise
MaxFailAt == 3

\* the behaviours up to and including the first call in which a ledger write raises
Running == last.status # "history_error"

NextLedgerFault ==
  \/ Running /\ \E input \in MergeInputs : Contribute(input)
  \/ Running /\ \E id \in Ids : Reinforce(id)
  \/ Running /\ \E id \in Ids, input \in UpdateInputs : Update(id, input)
  \/ Running /\ \E sourceId \in Ids, targetId \in Ids, claim \in MergeClaims :
                  Merge(sourceId, targetId, claim)
  \/ Running /\ \E input \in MergeInputs : ContributeLedgerFails(input)
  \/ Running /\ \E id \in Ids : ReinforceLedgerFails(id)
  \/ Running /\ \E id \in Ids, input \in UpdateInputs, failAt \in 1..MaxFailAt :
                  UpdateLedgerFails(id, input, failAt)
  \/ Running /\ \E sourceId \in Ids, targetId \in Ids, claim \in MergeClaims,
                    failAt \in 1..MaxFailAt :
                  MergeLedgerFails(sourceId, targetId, claim, failAt)

SpecLedgerFault == Init /\ [][NextLedgerFault]_vars

(* ------------------------- tension of two claims ---------------------- *)
\* the claims of the tension tests, some in two spellings, and two that hold both
\* terms of an opposition pair
TensionTexts ==
  {ClaimDirect, ClaimVerbose, ClaimBrief, ClaimTdd,
   "Boss values concise brief responses", "Boss likes coffee in the morning",
   "Always ask before taking action", "Act first on clear tasks, explain later",
   "Be VERBOSE in explanations", "be verbose in explanations", "Keep things CONCISE",
   "Verbose or concise", "CONCISE OR VERBOSE"}

\* a call of computeTensionScore
ComputeTensionScore(claimA, claimB) ==
  /\ last' = Call("computeTensionScore", "ok", 0, 0,
                  [claimA |-> claimA, claimB |-> claimB],
                  computeTensionScore(claimA, claimB))
  /\ UNCHANGED <<insights, embeddings, history, nextId, nextHistoryId, now, budget,
                 procs, pending>>

\* one call per behaviour: the function reads nothing but its arguments
NextTension ==
  /\ last.op = "init"
  /\ \E claimA \in TensionTexts, claimB \in TensionTexts :
       ComputeTensionScore(claimA, claimB)

SpecTension == Init /\ [][NextTension]_vars

(* ------------------------------ stemming ------------------------------ *)
\* words that end in the suffixes of STEM_RULES, on stems of two to six letters (one of
\* them, acting, is in STEM_MAP), two words with two suffixes and one with a capital,
\* each with its characters
StemTexts ==
  ("detailness" :> <<"d", "e", "t", "a", "i", "l", "n", "e", "s", "s">>) @@
  ("detaility" :> <<"d", "e", "t", "a", "i", "l", "i", "t", "y">>) @@
  ("detailtion" :> <<"d", "e", "t", "a", "i", "l", "t", "i", "o", "n">>) @@
  ("detailment" :> <<"d", "e", "t", "a", "i", "l", "m", "e", "n", "t">>) @@
  ("detailing" :> <<"d", "e", "t", "a", "i", "l", "i", "n", "g">>) @@
  ("detailly" :> <<"d", "e", "t", "a", "i", "l", "l", "y">>) @@
  ("detailous" :> <<"d", "e", "t", "a", "i", "l", "o", "u", "s">>) @@
  ("detailive" :> <<"d", "e", "t", "a", "i", "l", "i", "v", "e">>) @@
  ("detailful" :> <<"d", "e", "t", "a", "i", "l", "f", "u", "l">>) @@
  ("detailed" :> <<"d", "e", "t", "a", "i", "l", "e", "d">>) @@
  ("detailer" :> <<"d", "e", "t", "a", "i", "l", "e", "r">>) @@
  ("detailest" :> <<"d", "e", "t", "a", "i", "l", "e", "s", "t">>) @@
  ("detailal" :> <<"d", "e", "t", "a", "i", "l", "a", "l">>) @@
  ("details" :> <<"d", "e", "t", "a", "i", "l", "s">>) @@
  ("quickness" :> <<"q", "u", "i", "c", "k", "n", "e", "s", "s">>) @@
  ("quickity" :> <<"q", "u", "i", "c", "k", "i", "t", "y">>) @@
  ("quicktion" :> <<"q", "u", "i", "c", "k", "t", "i", "o", "n">>) @@
  ("quickment" :> <<"q", "u", "i", "c", "k", "m", "e", "n", "t">>) @@
  ("quicking" :> <<"q", "u", "i", "c", "k", "i", "n", "g">>) @@
  ("quickly" :> <<"q", "u", "i", "c", "k", "l", "y">>) @@
  ("quickous" :> <<"q", "u", "i", "c", "k", "o", "u", "s">>) @@
  ("quickive" :> <<"q", "u", "i", "c", "k", "i", "v", "e">>) @@
  ("quickful" :> <<"q", "u", "i", "c", "k", "f", "u", "l">>) @@
  ("quicked" :> <<"q", "u", "i", "c", "k", "e", "d">>) @@
  ("quicker" :> <<"q", "u", "i", "c", "k", "e", "r">>) @@
  ("quickest" :> <<"q", "u", "i", "c", "k", "e", "s", "t">>) @@
  ("quickal" :> <<"q", "u", "i", "c", "k", "a", "l">>) @@
  ("quicks" :> <<"q", "u", "i", "c", "k", "s">>) @@
  ("fastness" :> <<"f", "a", "s", "t", "n", "e", "s", "s">>) @@
  ("fastity" :> <<"f", "a", "s", "t", "i", "t", "y">>) @@
  ("fasttion" :> <<"f", "a", "s", "t", "t", "i", "o", "n">>) @@
  ("fastment" :> <<"f", "a", "s", "t", "m", "e", "n", "t">>) @@
  ("fasting" :> <<"f", "a", "s", "t", "i", "n", "g">>) @@
  ("fastly" :> <<"f", "a", "s", "t", "l", "y">>) @@
  ("fastous" :> <<"f", "a", "s", "t", "o", "u", "s">>) @@
  ("fastive" :> <<"f", "a", "s", "t", "i", "v", "e">>) @@
  ("fastful" :> <<"f", "a", "s", "t", "f", "u", "l">>) @@
  ("fasted" :> <<"f", "a", "s", "t", "e", "d">>) @@
  ("faster" :> <<"f", "a", "s", "t", "e", "r">>) @@
  ("fastest" :> <<"f", "a", "s", "t", "e", "s", "t">>) @@
  ("fastal" :> <<"f", "a", "s", "t", "a", "l">>) @@
  ("fasts" :> <<"f", "a", "s", "t", "s">>) @@
  ("directness" :> <<"d", "i", "r", "e", "c", "t", "n", "e", "s", "s">>) @@
  ("directity" :> <<"d", "i", "r", "e", "c", "t", "i", "t", "y">>) @@
  ("directtion" :> <<"d", "i", "r", "e", "c", "t", "t", "i", "o", "n">>) @@
  ("directment" :> <<"d", "i", "r", "e", "c", "t", "m", "e", "n", "t">>) @@
  ("directing" :> <<"d", "i", "r", "e", "c", "t", "i", "n", "g">>) @@
  ("directly" :> <<"d", "i", "r", "e", "c", "t", "l", "y">>) @@
  ("directous" :> <<"d", "i", "r", "e", "c", "t", "o", "u", "s">>) @@
  ("directive" :> <<"d", "i", "r", "e", "c", "t", "i", "v", "e">>) @@
  ("directful" :> <<"d", "i", "r", "e", "c", "t", "f", "u", "l">>) @@
  ("directed" :> <<"d", "i", "r", "e", "c", "t", "e", "d">>) @@
  ("directer" :> <<"d", "i", "r", "e", "c", "t", "e", "r">>) @@
  ("directest" :> <<"d", "i", "r", "e", "c", "t", "e", "s", "t">>) @@
  ("directal" :> <<"d", "i", "r", "e", "c", "t", "a", "l">>) @@
  ("directs" :> <<"d", "i", "r", "e", "c", "t", "s">>) @@
  ("formness" :> <<"f", "o", "r", "m", "n", "e", "s", "s">>) @@
  ("formity" :> <<"f", "o", "r", "m", "i", "t", "y">>) @@
  ("formtion" :> <<"f", "o", "r", "m", "t", "i", "o", "n">>) @@
  ("formment" :> <<"f", "o", "r", "m", "m", "e", "n", "t">>) @@
  ("forming" :> <<"f", "o", "r", "m", "i", "n", "g">>) @@
  ("formly" :> <<"f", "o", "r", "m", "l", "y">>) @@
  ("formous" :> <<"f", "o", "r", "m", "o", "u", "s">>) @@
  ("formive" :> <<"f", "o", "r", "m", "i", "v", "e">>) @@
  ("formful" :> <<"f", "o", "r", "m", "f", "u", "l">>) @@
  ("formed" :> <<"f", "o", "r", "m", "e", "d">>) @@
  ("former" :> <<"f", "o", "r", "m", "e", "r">>) @@
  ("formest" :> <<"f", "o", "r", "m", "e", "s", "t">>) @@
  ("formal" :> <<"f", "o", "r", "m", "a", "l">>) @@
  ("forms" :> <<"f", "o", "r", "m", "s">>) @@
  ("careness" :> <<"c", "a", "r", "e", "n", "e", "s", "s">>) @@
  ("careity" :> <<"c", "a", "r", "e", "i", "t", "y">>) @@
  ("caretion" :> <<"c", "a", "r", "e", "t", "i", "o", "n">>) @@
  ("carement" :> <<"c", "a", "r", "e", "m", "e", "n", "t">>) @@
  ("careing" :> <<"c", "a", "r", "e", "i", "n", "g">>) @@
  ("carely" :> <<"c", "a", "r", "e", "l", "y">>) @@
  ("careous" :> <<"c", "a", "r", "e", "o", "u", "s">>) @@
  ("careive" :> <<"c", "a", "r", "e", "i", "v", "e">>) @@
  ("careful" :> <<"c", "a", "r", "e", "f", "u", "l">>) @@
  ("careed" :> <<"c", "a", "r", "e", "e", "d">>) @@
  ("career" :> <<"c", "a", "r", "e", "e", "r">>) @@
  ("careest" :> <<"c", "a", "r", "e", "e", "s", "t">>) @@
  ("careal" :> <<"c", "a", "r", "e", "a", "l">>) @@
  ("cares" :> <<"c", "a", "r", "e", "s">>) @@
  ("actness" :> <<"a", "c", "t", "n", "e", "s", "s">>) @@
  ("actity" :> <<"a", "c", "t", "i", "t", "y">>) @@
  ("acttion" :> <<"a", "c", "t", "t", "i", "o", "n">>) @@
  ("actment" :> <<"a", "c", "t", "m", "e", "n", "t">>) @@
  ("acting" :> <<"a", "c", "t", "i", "n", "g">>) @@
  ("actly" :> <<"a", "c", "t", "l", "y">>) @@
  ("actous" :> <<"a", "c", "t", "o", "u", "s">>) @@
  ("active" :> <<"a", "c", "t", "i", "v", "e">>) @@
  ("actful" :> <<"a", "c", "t", "f", "u", "l">>) @@
  ("acted" :> <<"a", "c", "t", "e", "d">>) @@
  ("acter" :> <<"a", "c", "t", "e", "r">>) @@
  ("actest" :> <<"a", "c", "t", "e", "s", "t">>) @@
  ("actal" :> <<"a", "c", "t", "a", "l">>) @@
  ("acts" :> <<"a", "c", "t", "s">>) @@
  ("goness" :> <<"g", "o", "n", "e", "s", "s">>) @@
  ("goity" :> <<"g", "o", "i", "t", "y">>) @@
  ("gotion" :> <<"g", "o", "t", "i", "o", "n">>) @@
  ("goment" :> <<"g", "o", "m", "e", "n", "t">>) @@
  ("going" :> <<"g", "o", "i", "n", "g">>) @@
  ("goly" :> <<"g", "o", "l", "y">>) @@
  ("goous" :> <<"g", "o", "o", "u", "s">>) @@
  ("goive" :> <<"g", "o", "i", "v", "e">>) @@
  ("goful" :> <<"g", "o", "f", "u", "l">>) @@
  ("goed" :> <<"g", "o", "e", "d">>) @@
  ("goer" :> <<"g", "o", "e", "r">>) @@
  ("goest" :> <<"g", "o", "e", "s", "t">>) @@
  ("goal" :> <<"g", "o", "a", "l">>) @@
  ("gos" :> <<"g", "o", "s">>) @@
  ("carefully" :> <<"c", "a", "r", "e", "f", "u", "l", "l", "y">>) @@
  ("explanations" :> <<"e", "x", "p", "l", "a", "n", "a", "t", "i", "o", "n", "s">>) @@
  ("Detailed" :> <<"D", "e", "t", "a", "i", "l", "e", "d">>)

\* a call of tokenize on a word of StemTexts
Tokenize(text) ==
  /\ last' = Call("tokenize", "ok", 0, 0, text, tokenizeChars(StemTexts[text]))
  /\ UNCHANGED <<insights, embeddings, history, nextId, nextHistoryId, now, budget,
                 procs, pending>>

\* one call per behaviour: the function reads nothing but its argument
NextStem ==
  /\ last.op = "init"
  /\ \E text \in DOMAIN StemTexts : Tokenize(text)

SpecStem == Init /\ [][NextStem]_vars

(* --------------------------- similar claims --------------------------- *)
MaxSimilar == 3

\* the claims of the stored insights and of the queries; two of them have no word of
\* more than two characters
SimilarClaims == <<ClaimDirect, ClaimBrief, ClaimTdd, "A", "Go on">>

\* a store of n insights contributed in n different seconds
InitSimilar ==
  \E n \in 0..MaxSimilar :
    \E pick \in [1..n -> 1..Len(SimilarClaims)] :
      LET tbl == [i \in 1..n |->
                    InsertRow([BaseInput EXCEPT !.claim = SimilarClaims[pick[i]]], i)]
      IN  /\ insights = tbl
          /\ embeddings = << >>
          /\ history = [i \in 1..n |->
                          HistoryRow(i, i, "*", NULL, Some(tbl[i].claim), "create", i, NULL)]
          /\ nextId = n + 1
          /\ nextHistoryId = n + 1
          /\ now = n
          /\ budget = n
          /\ procs = IdleProcs
          /\ pending = NoFile
          /\ last = Call("init", "ok", 0, 0, << >>, << >>)

\* a call of findSimilar(claim, minSimilarity, excludeId)
FindSimilar(claim, minSimilarity, excludeId) ==
  /\ \E allInsights \in list(insights) :
       last' = Call("findSimilar", "ok", 0, 0,
                    [claim |-> claim, minSimilarity |-> minSimilarity,
                     excludeId |-> excludeId],
                    findSimilar(allInsights, claim, minSimilarity, excludeId))
  /\ UNCHANGED <<insights, embeddings, history, nextId, nextHistoryId, now, budget,
                 procs, pending>>

\* one call on each store
NextSimilar ==
  /\ last.op = "init"
  /\ \E c \in 1..Len(SimilarClaims), minSimilarity \in {DEFAULT_MIN_SIMILARITY, Scale},
        excludeId \in {NULL} \cup {Some(id) : id \in 1..MaxSimilar} :
       FindSimilar(SimilarClaims[c], minSimilarity, excludeId)

SpecSimilar == InitSimilar /\ [][NextSimilar]_vars

(* -------------------------- read operations --------------------------- *)
\* InsightHistory.getChangelog on the ledger h at time t; days counts ticks of the clock
getChangelog(h, options, t) ==
  LET rows == OrderNewestFirst(
                {h[k] : k \in {j \in 1..Len(h) :
                                 \/ options.days = NULL
                                 \/ options.days[1] = 0
                                 \/ h[j].changed_at >= t - options.days[1]}})
      limit == IF options.limit # NULL /\ options.limit[1] # 0 THEN options.limit[1]
               ELSE 50
  IN  [k \in 1..Min(Len(rows), limit) |-> rowToEntry(rows[k])]

\* a call of InsightRepository.get
Get(id) ==
  /\ last' = Call("get", "ok", id, 0, << >>, get(insights, id))
  /\ UNCHANGED <<insights, embeddings, history, nextId, nextHistoryId, now, budget,
                 procs, pending>>

\* a call of InsightRepository.list
List ==
  /\ \E allInsights \in list(insights) :
       last' = Call("list", "ok", 0, 0, << >>, allInsights)
  /\ UNCHANGED <<insights, embeddings, history, nextId, nextHistoryId, now, budget,
                 procs, pending>>

\* a call of InsightHistory.getHistory
GetHistory(insightId) ==
  /\ last' = Call("getHistory", "ok", insightId, 0, << >>, getHistory(history, insightId))
  /\ UNCHANGED <<insights, embeddings, history, nextId, nextHistoryId, now, budget,
                 procs, pending>>

\* a call of InsightHistory.getChangelog
GetChangelog(options) ==
  /\ last' = Call("getChangelog", "ok", 0, 0, options, getChangelog(history, options, now))
  /\ UNCHANGED <<insights, embeddings, history, nextId, nextHistoryId, now, budget,
                 procs, pending>>

\* the operations that only read
ReadOps ==
  {"get", "list", "findSimilar", "detectConflicts", "retrieve", "getHistory",
   "getChangelog"}

\* one read, of any of the seven kinds
Reads ==
  \/ \E id \in Ids : Get(id)
  \/ List
  \/ FindSimilar(ClaimBrief, DEFAULT_MIN_SIMILARITY, NULL)
  \/ DetectConflicts([BaseInput EXCEPT !.claim = ClaimBrief],
                     [minConflictScore |-> NULL, maxResults |-> NULL])
  \/ \E queryEmbedding \in {<<1, 0>>, <<1, 0, 0>>} :
       Retrieve(queryEmbedding, NoRetrieveOptions)
  \/ \E id \in Ids : GetHistory(id)
  \/ \E options \in {[days |-> NULL, limit |-> NULL],
                      [days |-> Some(1), limit |-> Some(1)]} :
       GetChangelog(options)

\* the calls of the repository specification with reads between them. A read is taken
\* after every write and at the start; what a read that follows a read would do is what
\* it does in the state the first read left
NextReads ==
  \/ \E input \in ValidInputs : Contribute(input)
  \/ \E id \in Ids : Update(id, [NoUpdate EXCEPT !.claim = Some(ClaimVerbose)])
  \/ \E id \in Ids : Reinforce(id)
  \/ \E sourceId \in Ids, targetId \in Ids : Merge(sourceId, targetId, NULL)
  \/ \E id \in Ids : Archive(id)
  \/ \E id \in Ids, vector \in Vectors : UpsertEmbedding(id, vector)
  \/ last.op \notin ReadOps /\ Reads

SpecReads == Init /\ [][NextReads]_vars

(* ------------------------------ marshal -------------------------------- *)
TYPE_LABELS ==
  ("behavioral" :> <<"B", "e", "h", "a", "v", "i", "o", "r", "a", "l">>) @@
  ("personality" :> <<"P", "e", "r", "s", "o", "n", "a", "l", "i", "t", "y">>) @@
  ("relational" :> <<"R", "e", "l", "a", "t", "i", "o", "n", "a", "l">>) @@
  ("principle" :> <<"P", "r", "i", "n", "c", "i", "p", "l", "e">>) @@
  ("skill" :> <<"S", "k", "i", "l", "l">>) @@
  ("trigger" :> <<"T", "r", "i", "g", "g", "e", "r">>)

\* the types in another order
TypeOrderDeclared ==
  <<"behavioral", "personality", "relational", "principle", "skill", "trigger">>

TYPE_ORDER == <<"personality", "relational", "behavioral", "principle", "skill", "trigger">>

\* estimateTokens of a string, given as its characters: Math.ceil(text.length / 4)
estimateTokens(text) == IF Len(text) = 0 THEN 0 ELSE (Len(text) + 3) \div 4

\* the tokens charged before the first section: estimateTokens('## Personality
\* Context\n\n'), a string of 24 characters that is not part of the output
headerBudget == estimateTokens([k \in 1..24 |-> "#"])

\* the break conditions of marshal
NeverOverBudget(currentTokens, tokens, tokenBudget) == FALSE
OverBudget(currentTokens, tokens, tokenBudget) == currentTokens + tokens > tokenBudget

\* the line of one scored insight; the arrow of a trigger line is one character
formatLine(insight, includeContext, format) ==
  LET base ==
        IF insight.type = "trigger" /\ Truthy(insight.condition)
        THEN <<"-", " ", "W", "h", "e", "n", ":", " ">> \o Chars(insight.condition[1])
               \o <<" ", ">", " ">> \o (IF insight.avoid THEN <<"a", "v", "o", "i", "d">> ELSE <<"d", "o">>)
               \o <<":", " ">> \o Chars(insight.claim)
        ELSE <<"-", " ">> \o Chars(insight.claim)
      compact ==
        IF includeContext /\ Truthy(insight.context) /\ format = "compact"
        THEN base \o <<" ", "(">> \o Chars(insight.context[1]) \o <<")">>
        ELSE base
      withContext ==
        IF format = "full" /\ Truthy(insight.context)
        THEN compact \o <<"\n">> \o <<" ", " ", "C", "o", "n", "t", "e", "x", "t", ":", " ">> \o Chars(insight.context[1])
        ELSE compact
      withReasoning ==
        IF format = "full" /\ Truthy(insight.reasoning)
        THEN withContext \o <<"\n">> \o <<" ", " ", "R", "e", "a", "s", "o", "n", "i", "n", "g", ":", " ">> \o Chars(insight.reasoning[1])
        ELSE withContext
  IN  IF format = "full" /\ Truthy(insight.limitations)
      THEN withReasoning \o <<"\n">> \o <<" ", " ", "L", "i", "m", "i", "t", "a", "t", "i", "o", "n", "s", ":", " ">> \o Chars(insight.limitations[1])
      ELSE withReasoning

\* the inner loop of marshal from the i-th insight of a section on
RECURSIVE marshalLines(_, _, _, _, _, _, _)
marshalLines(group, i, lines, currentTokens, tokenBudget, includeContext, format) ==
  IF i > Len(group) THEN [lines |-> lines, currentTokens |-> currentTokens]
  ELSE LET line == formatLine(group[i].insight, includeContext, format)
           lineTokens == estimateTokens(line \o <<"\n">>)
       IN  IF OverBudget(currentTokens, lineTokens, tokenBudget)
           THEN [lines |-> lines, currentTokens |-> currentTokens]
           ELSE marshalLines(group, i + 1, Append(lines, line),
                             currentTokens + lineTokens, tokenBudget, includeContext, format)

\* the outer loop of marshal from the k-th type of TYPE_ORDER on
RECURSIVE marshalSections(_, _, _, _, _, _, _)
marshalSections(scored, k, lines, currentTokens, tokenBudget, includeContext, format) ==
  IF k > Len(TYPE_ORDER) THEN lines
  ELSE LET group == SelectSeq(scored, LAMBDA s : s.insight.type = TYPE_ORDER[k])
           sectionHeader == <<"#", "#", "#", " ">> \o TYPE_LABELS[TYPE_ORDER[k]]
           headerTokens == estimateTokens(sectionHeader \o <<"\n">>)
       IN  IF Len(group) = 0
           THEN marshalSections(scored, k + 1, lines, currentTokens, tokenBudget,
                                includeContext, format)
           ELSE IF OverBudget(currentTokens, headerTokens, tokenBudget) THEN lines
           ELSE LET section == marshalLines(group, 1, Append(lines, sectionHeader),
                                            currentTokens + headerTokens, tokenBudget,
                                            includeContext, format)
                IN  marshalSections(scored, k + 1, Append(section.lines, << >>),
                                    section.currentTokens, tokenBudget, includeContext,
                                    format)

\* Array.prototype.join
RECURSIVE join(_, _)
join(lines, separator) ==
  IF Len(lines) = 0 THEN << >>
  ELSE IF Len(lines) = 1 THEN lines[1]
  ELSE lines[1] \o <<separator>> \o join(Tail(lines), separator)

\* String.prototype.trim
RECURSIVE trim(_)
trim(text) ==
  IF Len(text) = 0 THEN text
  ELSE IF text[1] \in {" ", "\n"} THEN trim(Tail(text))
  ELSE IF text[Len(text)] \in {" ", "\n"} THEN trim(SubSeq(text, 1, Len(text) - 1))
  ELSE text

\* the default tokenBudget of marshal
DEFAULT_TOKEN_BUDGET == 2000

\* marshal: the characters of the string it returns
marshal(scored, options) ==
  IF Len(scored) = 0 THEN << >>
  ELSE trim(join(marshalSections(scored, 1, << >>, headerBudget,
                                 OrElse(options.tokenBudget, DEFAULT_TOKEN_BUDGET),
                                 OrElse(options.includeContext, FALSE),
                                 OrElse(options.format, "compact")), "\n"))

MaxScored == 3
MaxBudget == 40

\* the insights handed to marshal: plain, with context, reasoning and limitations, a
\* trigger with a condition, one of a fourth type, and a second of the second's type
MarshalInputs ==
  << [BaseInput EXCEPT !.type = "personality", !.claim = ClaimBrief],
     [BaseInput EXCEPT !.context = Some(TextCtx), !.reasoning = Some(TextWhy),
                       !.limitations = Some(TextLim)],
     [BaseInput EXCEPT !.type = "trigger", !.claim = ClaimTdd,
                       !.condition = Some(TextCond), !.avoid = Some(TRUE)],
     [BaseInput EXCEPT !.type = "skill", !.claim = ClaimVerbose,
                       !.context = Some(TextCtx)],
     [BaseInput EXCEPT !.claim = ClaimBrief] >>

\* a call of marshal on a list of scored insights
Marshal(scored, options) ==
  /\ last' = Call("marshal", "ok", 0, 0, [scored |-> scored, options |-> options],
                  marshal(scored, options))
  /\ UNCHANGED <<insights, embeddings, history, nextId, nextHistoryId, now, budget,
                 procs, pending>>

\* one call per behaviour: the function reads nothing but its arguments
NextMarshal ==
  /\ last.op = "init"
  /\ \E n \in 0..MaxScored :
       \E pick \in [1..n -> 1..Len(MarshalInputs)], tokenBudget \in 0..MaxBudget,
          format \in {NULL, Some("full")}, includeContext \in {NULL, Some(TRUE)} :
         Marshal([i \in 1..n |->
                    [insight |-> rowToInsight(i, InsertRow(MarshalInputs[pick[i]], 0)),
                     similarity |-> Scale, score |-> Scale]],
                 [tokenBudget |-> Some(tokenBudget), includeContext |-> includeContext,
                  format |-> format])

SpecMarshal == Init /\ [][NextMarshal]_vars

(* -------------------------- context detection ------------------------ *)
\* the keyword signals, weights in ten-thousandths
SIGNALS ==
  << [category |-> "coding", weight |-> 10000,
      keywords |->
        <<
           <<"c", "o", "d", "e">>, <<"f", "u", "n", "c", "t", "i", "o", "n">>,
           <<"b", "u", "g">>, <<"a", "p", "i">>, <<"b", "u", "i", "l", "d">>,
           <<"d", "e", "p", "l", "o", "y">>, <<"t", "e", "s", "t">>, <<"g", "i", "t">>,
           <<"c", "o", "m", "m", "i", "t">>, <<"p", "u", "s", "h">>, <<"p", "u", "l", "l">>,
           <<"b", "r", "a", "n", "c", "h">>, <<"m", "e", "r", "g", "e">>,
           <<"r", "e", "f", "a", "c", "t", "o", "r">>, <<"d", "e", "b", "u", "g">>,
           <<"t", "y", "p", "e", "s", "c", "r", "i", "p", "t">>,
           <<"j", "a", "v", "a", "s", "c", "r", "i", "p", "t">>,
           <<"p", "y", "t", "h", "o", "n">>, <<"r", "u", "s", "t">>, <<"h", "t", "m", "l">>,
           <<"c", "s", "s">>, <<"d", "a", "t", "a", "b", "a", "s", "e">>, <<"s", "q", "l">>,
           <<"s", "e", "r", "v", "e", "r">>, <<"e", "n", "d", "p", "o", "i", "n", "t">>,
           <<"c", "l", "i">>, <<"n", "p", "m">>, <<"p", "a", "c", "k", "a", "g", "e">>,
           <<"c", "o", "m", "p", "i", "l", "e">>, <<"e", "r", "r", "o", "r">>,
           <<"f", "i", "x">>, <<"i", "m", "p", "l", "e", "m", "e", "n", "t">>,
           <<"a", "r", "c", "h", "i", "t", "e", "c", "t">>, <<"r", "e", "p", "o">>,
           <<"d", "o", "c", "k", "e", "r">>, <<"c", "o", "n", "t", "a", "i", "n", "e", "r">>,
           <<"n", "e", "t", "l", "i", "f", "y">>, <<"w", "e", "b", "s", "i", "t", "e">>,
           <<"t", "d", "d">>, <<"l", "i", "n", "t">>, <<"s", "c", "h", "e", "m", "a">>,
           <<"m", "i", "g", "r", "a", "t", "i", "o", "n">>, <<"q", "u", "e", "r", "y">>,
           <<"i", "n", "s", "t", "a", "l", "l">>, <<"c", "o", "n", "f", "i", "g">> >>],
     [category |-> "communication", weight |-> 10000,
      keywords |->
        <<
           <<"b", "o", "s", "s">>, <<"t", "e", "a", "m">>,
           <<"r", "e", "s", "p", "o", "n", "d">>, <<"r", "e", "p", "l", "y">>,
           <<"m", "e", "s", "s", "a", "g", "e">>, <<"e", "m", "a", "i", "l">>,
           <<"s", "l", "a", "c", "k">>, <<"t", "e", "l", "l">>, <<"a", "s", "k">>,
           <<"e", "x", "p", "l", "a", "i", "n">>,
           <<"c", "o", "m", "m", "u", "n", "i", "c", "a", "t", "e">>,
           <<"f", "e", "e", "d", "b", "a", "c", "k">>, <<"m", "e", "e", "t", "i", "n", "g">>,
           <<"p", "e", "r", "s", "o", "n">>, <<"p", "e", "o", "p", "l", "e">>,
           <<"c", "o", "w", "o", "r", "k", "e", "r">>,
           <<"c", "o", "l", "l", "e", "a", "g", "u", "e">>, <<"c", "l", "i", "e", "n", "t">>,
           <<"u", "s", "e", "r">>,
           <<"c", "o", "n", "v", "e", "r", "s", "a", "t", "i", "o", "n">>,
           <<"d", "i", "s", "c", "u", "s", "s">>, <<"c", "h", "a", "t">>,
           <<"t", "o", "n", "e">>, <<"p", "o", "l", "i", "t", "e">>,
           <<"d", "i", "r", "e", "c", "t">> >>],
     [category |-> "ethical", weight |-> 12000,
      keywords |->
        <<
           <<"e", "t", "h", "i", "c", "a", "l">>, <<"m", "o", "r", "a", "l">>,
           <<"r", "i", "g", "h", "t">>, <<"w", "r", "o", "n", "g">>,
           <<"h", "o", "n", "e", "s", "t">>, <<"h", "o", "n", "e", "s", "t", "y">>,
           <<"l", "i", "e">>, <<"p", "r", "i", "v", "a", "t", "e">>,
           <<"p", "r", "i", "v", "a", "c", "y">>, <<"s", "e", "c", "u", "r", "i", "t", "y">>,
           <<"t", "r", "u", "s", "t">>, <<"p", "r", "i", "n", "c", "i", "p", "l", "e">>,
           <<"v", "a", "l", "u", "e">>, <<"s", "h", "o", "u", "l", "d">>,
           <<"f", "a", "i", "r">>, <<"i", "n", "t", "e", "g", "r", "i", "t", "y">>,
           <<"p", "e", "r", "m", "i", "s", "s", "i", "o", "n">>,
           <<"c", "o", "n", "s", "e", "n", "t">>, <<"s", "a", "f", "e">>,
           <<"a", "p", "p", "r", "o", "p", "r", "i", "a", "t", "e">>,
           <<"h", "a", "r", "m", "f", "u", "l">>,
           <<"r", "e", "s", "p", "o", "n", "s", "i", "b", "l", "e">>,
           <<"c", "h", "r", "i", "s", "t", "i", "a", "n">>, <<"f", "a", "i", "t", "h">> >>],
     [category |-> "creative", weight |-> 9000,
      keywords |->
        <<
           <<"s", "t", "o", "r", "y">>, <<"w", "r", "i", "t", "e">>,
           <<"c", "r", "e", "a", "t", "i", "v", "e">>, <<"f", "u", "n">>,
           <<"h", "u", "m", "o", "r">>, <<"j", "o", "k", "e">>, <<"p", "o", "e", "m">>,
           <<"i", "m", "a", "g", "i", "n", "e">>, <<"d", "e", "s", "i", "g", "n">>,
           <<"a", "r", "t">>, <<"s", "t", "y", "l", "e">>, <<"v", "o", "i", "c", "e">>,
           <<"p", "e", "r", "s", "o", "n", "a", "l", "i", "t", "y">>,
           <<"d", "r", "e", "a", "m">>,
           <<"p", "h", "i", "l", "o", "s", "o", "p", "h", "i", "c", "a", "l">>,
           <<"r", "e", "f", "l", "e", "c", "t">>, <<"m", "u", "s", "e">>,
           <<"i", "n", "s", "p", "i", "r", "e">> >>] >>

\* the type boosts of each category, in ten-thousandths
BOOST_PROFILES ==
  "coding" :>
     ("skill" :> 18000 @@ "behavioral" :> 13000 @@ "principle" :> 10000 @@ "personality" :> 7000 @@ "relational" :> 8000) @@
  "communication" :>
     ("relational" :> 18000 @@ "behavioral" :> 15000 @@ "personality" :> 12000 @@ "principle" :> 10000 @@ "skill" :> 6000) @@
  "ethical" :>
     ("principle" :> 20000 @@ "behavioral" :> 12000 @@ "personality" :> 10000 @@ "relational" :> 10000 @@ "skill" :> 5000) @@
  "creative" :>
     ("personality" :> 18000 @@ "behavioral" :> 12000 @@ "relational" :> 10000 @@ "principle" :> 8000 @@ "skill" :> 6000) @@
  "general" :>
     ("personality" :> 10000 @@ "behavioral" :> 10000 @@ "relational" :> 10000 @@ "principle" :> 10000 @@ "skill" :> 10000)

\* String.prototype.includes
includes(text, keyword) ==
  \E k \in 1..(Len(text) - Len(keyword) + 1) :
    SubSeq(text, k, k + Len(keyword) - 1) = keyword

\* the loop of detectContext over the entries of scores from the k-th on
RECURSIVE BestCategory(_, _, _, _)
BestCategory(scores, k, bestCategory, bestScore) ==
  IF k > Len(scores) THEN [category |-> bestCategory, score |-> bestScore]
  ELSE IF scores[k].score > bestScore
       THEN BestCategory(scores, k + 1, scores[k].category, scores[k].score)
       ELSE BestCategory(scores, k + 1, bestCategory, bestScore)

\* detectContext of a text given as its characters
detectContext(text) ==
  IF Len(text) = 0 \/ Len(trim(text)) = 0
  THEN [category |-> "general", typeBoosts |-> BOOST_PROFILES["general"]]
  ELSE LET lower == toLowerCase(text)
           pieces == SelectSeq(split(lower, << >>, FALSE), LAMBDA w : Len(w) > 0)
           words == {pieces[i] : i \in 1..Len(pieces)}
           Matches(signal) ==
             Cardinality({k \in 1..Len(signal.keywords) :
                            signal.keywords[k] \in words \/ includes(lower, signal.keywords[k])})
           scores == [k \in 1..(Len(SIGNALS) + 1) |->
                        IF k <= Len(SIGNALS)
                        THEN [category |-> SIGNALS[k].category,
                              score |-> Matches(SIGNALS[k]) * SIGNALS[k].weight]
                        ELSE [category |-> "general", score |-> 0]]
           best == BestCategory(scores, 1, "general", 0)
           bestCategory == IF best.score < Scale THEN "general" ELSE best.category
       IN  [category |-> bestCategory, typeBoosts |-> BOOST_PROFILES[bestCategory]]

\* a call of detectContext
DetectContext(text) ==
  /\ last' = Call("detectContext", "ok", 0, 0, text, detectContext(text))
  /\ UNCHANGED <<insights, embeddings, history, nextId, nextHistoryId, now, budget,
                 procs, pending>>

\* the most words of a query
MaxQueryWords == 3

\* the words the queries are made of: keywords of each category, one in capitals, a word
\* that holds a keyword inside, words that hold none, and a blank
QueryWords ==
  << <<"s", "t", "o", "r", "y">>,
     <<"p", "o", "e", "m">>,
     <<"C", "O", "D", "E">>,
     <<"b", "u", "g">>,
     <<"b", "o", "s", "s">>,
     <<"m", "o", "r", "a", "l">>,
     <<"h", "o", "n", "e", "s", "t">>,
     <<"s", "t", "a", "r", "t">>,
     <<"h", "e", "l", "l", "o">>,
     <<"y", "e", "s">>,
     <<" ">> >>

\* one call per behaviour on a query of up to MaxQueryWords words joined by blanks
NextContext ==
  /\ last.op = "init"
  /\ \E n \in 0..MaxQueryWords :
       \E pick \in [1..n -> 1..Len(QueryWords)] :
         DetectContext(join([i \in 1..n |-> QueryWords[pick[i]]], " "))

SpecContext == Init /\ [][NextContext]_vars

(* retrieval with embeddings wholly or partly absent: the CLI command and the engine *)
MaxListed == 4
InitFallback == InitStore(0..MaxListed)

\* the type boosts detectContext hands to the CLI command
ContextBoosts == {<< >>, "skill" :> 20000, "behavioral" :> 15000}

\* one retrieval on each store, by the CLI command or by the engine
NextFallback ==
  /\ last.op = "init"
  /\ \/ \E typeBoosts \in ContextBoosts, maxResults \in {2, DEFAULT_MAX_RESULTS} :
          RetrieveCommand(typeBoosts, maxResults)
     \/ \E queryEmbedding \in {<<1, 0>>, <<1, 1>>}, typeBoosts \in ContextBoosts :
          Retrieve(queryEmbedding,
                   [NoRetrieveOptions EXCEPT
                      !.typeBoosts = IF typeBoosts = << >> THEN NULL ELSE Some(typeBoosts)])

SpecFallback == InitFallback /\ [][NextFallback]_vars

(* ------------------------------ claims -------------------------------- *)
\* the step just taken is a successful call of op
Succeeded(op) == last'.op = op /\ last'.status = "ok"

C2_MergeCombines ==
  [][Succeeded("merge") =>
       LET s == insights[last'.id]
           t == insights[last'.other]
           m == insights'[last'.other]
           TagSet(r) == {r.tags[i] : i \in 1..Len(r.tags)}
           NonEmpty(o) == o # NULL /\ o # Some("")
       IN  /\ last'.other \in DOMAIN insights'
           /\ m.confidence >= s.confidence /\ m.confidence >= t.confidence
           /\ m.confidence \in {s.confidence, t.confidence}
           /\ TagSet(m) = TagSet(s) \cup TagSet(t)
           /\ \A i, j \in 1..Len(m.tags) : m.tags[i] = m.tags[j] => i = j
           /\ m.reinforcement_count = s.reinforcement_count + t.reinforcement_count
           /\ (NonEmpty(s.reasoning) /\ NonEmpty(t.reasoning) =>
                 m.reasoning = Some(t.reasoning[1] \o "; " \o s.reasoning[1]))
           /\ m.claim = (IF last'.input # NULL THEN last'.input[1] ELSE t.claim)
           /\ m.type = t.type
           /\ m.context = t.context
           /\ m.limitations = t.limitations
           /\ m.source = t.source
           /\ m.created_at = t.created_at]_vars

\* C2 witness: the merge of the test, after the source was reinforced: the survivor
\* has confidence 0.9, three tags, both reasonings and the source's reinforcement
C2_Witness ==
  /\ last.op = "merge" /\ last.status = "ok"
  /\ insights[last.other].confidence = 9000
  /\ insights[last.other].tags = <<TagBoss, TagEfficiency, TagCommunication>>
  /\ insights[last.other].reasoning = Some(TextWhy \o "; " \o TextHow)
  /\ insights[last.other].reinforcement_count = 1
  /\ insights[last.other].claim = ClaimDirect

\* C3: after a successful merge(sourceId, targetId), get(sourceId) is null, no result of
\* list holds the source, the source has no embedding and no history entry, the target
\* is still stored and the number of stored insights has dropped by exactly one.
C3_MergeDeletesSource ==
  [][Succeeded("merge") =>
       /\ get(insights', last'.id) = NULL
       /\ \A r \in list(insights') : \A k \in 1..Len(r) : r[k].id # last'.id
       /\ \A k \in 1..Len(embeddings') : embeddings'[k].insight_id # last'.id
       /\ \A k \in 1..Len(history') : history'[k].insight_id # last'.id
       /\ get(insights', last'.other) # NULL
       /\ Cardinality(DOMAIN insights') = Cardinality(DOMAIN insights) - 1]_vars

\* C3 witness: a merge has removed ledger rows of its source (the ledger is shorter
\* than the number of rows ever written) and left the target with its embedding
C3_Witness ==
  /\ last.op = "merge" /\ last.status = "ok"
  /\ last.id \notin DOMAIN insights
  /\ \E k \in 1..Len(embeddings) : embeddings[k].insight_id = last.other
  /\ Len(history) < nextHistoryId - 2

\* C4: merge raises an error when sourceId = targetId (before any lookup), when the
\* source does not exist and when the target does not exist; a merge that raises
\* leaves every insight, embedding and history entry as it was.
C4_MergeErrors ==
  [][last'.op = "merge" =>
       /\ (last'.id = last'.other => last'.status = "self_error")
       /\ (last'.id # last'.other /\ last'.id \notin DOMAIN insights =>
             last'.status = "source_not_found")
       /\ (last'.id # last'.other /\ last'.id \in DOMAIN insights
             /\ last'.other \notin DOMAIN insights => last'.status = "target_not_found")
       /\ (last'.status # "ok" =>
             /\ insights' = insights
             /\ embeddings' = embeddings
             /\ history' = history
             /\ nextHistoryId' = nextHistoryId)]_vars

\* C4 witness: merge failed for a missing target while its source, with an embedding
\* and a history entry, is still stored
C4_Witness ==
  /\ last.op = "merge" /\ last.status = "target_not_found"
  /\ last.id \in DOMAIN insights
  /\ \E k \in 1..Len(embeddings) : embeddings[k].insight_id = last.id
  /\ \E k \in 1..Len(history) : history[k].insight_id = last.id

\* C5: whatever calls were made, accepted or rejected, every stored insight has a
\* confidence c with 0 <= c <= 1 and one of the six types behavioral, personality,
\* relational, principle, skill, trigger.
C5_StoredInsightsValid ==
  \A id \in DOMAIN insights :
    /\ insights[id].confidence >= 0
    /\ insights[id].confidence <= Scale
    /\ insights[id].type \in
         {"behavioral", "personality", "relational", "principle", "skill", "trigger"}

\* C5 witness: a call has just been rejected while an insight stands at confidence 1.0
C5_Witness ==
  /\ last.status = "constraint_error"
  /\ \E id \in DOMAIN insights : insights[id].confidence = Scale

\* C6: a contribute with a confidence outside [0,1] or a type outside the enumeration,
\* and an update of an existing insight with a confidence outside [0,1], raise an
\* error; a contribute or update rejected this way leaves every table as it was: no row
\* created, no supplied field applied, updatedAt not bumped, no history entry.
C6_InvalidRejected ==
  [][/\ (/\ last'.op = "contribute"
         /\ \/ last'.input.confidence < 0
            \/ last'.input.confidence > Scale
            \/ last'.input.type \notin
                 {"behavioral", "personality", "relational", "principle", "skill", "trigger"}
         => last'.status = "constraint_error")
     /\ (/\ last'.op = "update"
         /\ last'.id \in DOMAIN insights
         /\ last'.input.confidence # NULL
         /\ \/ last'.input.confidence[1] < 0
            \/ last'.input.confidence[1] > Scale
         => last'.status = "constraint_error")
     /\ (last'.op \in {"contribute", "update"} /\ last'.status = "constraint_error" =>
           /\ insights' = insights
           /\ embeddings' = embeddings
           /\ history' = history
           /\ nextId' = nextId
           /\ nextHistoryId' = nextHistoryId)]_vars

\* C6 witness: an update with a negative confidence and a new claim was rejected, and
\* the insight still has its old claim and its creation-time updatedAt
C6_Witness ==
  /\ last.op = "update" /\ last.status = "constraint_error"
  /\ last.input.confidence = Some(-1000)
  /\ last.input.claim # NULL
  /\ insights[last.id].claim # last.input.claim[1]
  /\ insights[last.id].updated_at = insights[last.id].created_at
  /\ now > insights[last.id].updated_at
  /\ Len(history) = 1

\* C7: update(id, ...) and reinforce(id) with an id that is not stored raise not-found
\* and change nothing; archive(id) with such an id returns normally and changes nothing.
C7_UnknownId ==
  [][/\ (last'.op \in {"update", "reinforce"} /\ last'.id \notin DOMAIN insights =>
           /\ last'.status = "not_found"
           /\ store' = store
           /\ nextHistoryId' = nextHistoryId)
     /\ (last'.op = "archive" /\ last'.id \notin DOMAIN insights =>
           /\ last'.status = "ok"
           /\ store' = store
           /\ nextHistoryId' = nextHistoryId)]_vars

\* C7 witness: update was called with the id of an archived insight while another
\* insight, its embedding and its history are stored
C7_Witness ==
  /\ last.op = "update" /\ last.status = "not_found"
  /\ last.id < nextId
  /\ DOMAIN insights # {}
  /\ Len(embeddings) > 0
  /\ Len(history) > 0

\* C8: contributeWithCheck returns the conflicts detectConflicts finds in the corpus as
\* it is before the insert and then stores the new insight whatever was found: a valid
\* input is never rejected, no conflict is the new insight itself, and with force = true
\* the conflicts list is empty while the insight is stored all the same.
C8_CheckThenStore ==
  [][last'.op = "contributeWithCheck" =>
       LET input == last'.input
           valid == /\ input.confidence >= 0
                    /\ input.confidence <= Scale
                    /\ input.type \in
                         {"behavioral", "personality", "relational", "principle", "skill",
                          "trigger"}
       IN  /\ (valid => last'.status = "ok")
           /\ (last'.status = "ok" =>
                 /\ last'.id \notin DOMAIN insights
                 /\ last'.id \in DOMAIN insights'
                 /\ insights'[last'.id].claim = input.claim
                 /\ insights'[last'.id].type = input.type
                 /\ insights'[last'.id].confidence = input.confidence
                 /\ \A id \in DOMAIN insights : insights'[id] = insights[id]
                 /\ \A k \in 1..Len(last'.out) :
                      /\ last'.out[k].insight.id # last'.id
                      /\ get(insights, last'.out[k].insight.id) = Some(last'.out[k].insight)
                 /\ (last'.other = 1 => last'.out = << >>)
                 /\ (last'.other = 0 =>
                       \E allInsights \in list(insights) :
                         last'.out = detectConflicts(allInsights, input, NoOptions)))]_vars

\* C8 witness: an unforced contributeWithCheck found a conflict with tension and the
\* new insight is stored
C8_Witness ==
  /\ last.op = "contributeWithCheck" /\ last.status = "ok" /\ last.other = 0
  /\ Len(last.out) > 0
  /\ last.out[1].tensionScore > 0
  /\ last.id \in DOMAIN insights
  /\ insights[last.id].claim = last.input.claim

\* C9: detectConflicts returns at most maxResults results (5 by default), sorted
\* non-increasing by conflictScore; every result has conflictScore = 0.3 * similarity +
\* 0.7 * tensionScore, at least minConflictScore (0.15 by default), and is not a case of
\* tensionScore = 0 with similarity < 0.3; every result is an insight of the corpus and
\* on an empty corpus the list is empty.
C9_ConflictResults ==
  last.op = "detectConflicts" =>
    LET r == last.out
        maxResults == IF last.input.options.maxResults = NULL THEN 5
                      ELSE last.input.options.maxResults[1]
        minConflictScore == IF last.input.options.minConflictScore = NULL THEN 1500
                            ELSE last.input.options.minConflictScore[1]
    IN  /\ last.status = "ok"
        /\ Len(r) <= maxResults
        /\ \A k \in 1..(Len(r) - 1) : r[k].conflictScore >= r[k + 1].conflictScore
        /\ \A k \in 1..Len(r) :
             /\ r[k].conflictScore = Mul(3000, r[k].similarity) + Mul(7000, r[k].tensionScore)
             /\ r[k].conflictScore >= minConflictScore
             /\ ~(r[k].tensionScore = 0 /\ r[k].similarity < 3000)
             /\ get(insights, r[k].insight.id) = Some(r[k].insight)
        /\ (DOMAIN insights = {} => r = << >>)

\* C9 witness: with default options, six stored insights qualify and the best five are
\* returned, of different scores
C9_Witness ==
  /\ last.op = "detectConflicts"
  /\ last.input.options = NoOptions
  /\ Cardinality(DOMAIN insights) = 6
  /\ Len(last.out) = 5
  /\ last.out[1].conflictScore > last.out[5].conflictScore
  /\ last.out[5].conflictScore >= 1500

\* C10: retrieve returns at most maxResults results (15 by default), sorted
\* non-increasing by score; no result has a confidence below minConfidence and, when
\* types is non-empty, none has a type outside types; every result is a stored insight,
\* and with no stored embeddings the call returns an empty list without error.
C10_RetrieveResults ==
  last.op = "retrieve" =>
    LET r == last.out
        o == last.input.options
        maxResults == IF o.maxResults = NULL THEN 15 ELSE o.maxResults[1]
    IN  /\ Len(r) <= maxResults
        /\ \A k \in 1..(Len(r) - 1) : r[k].score >= r[k + 1].score
        /\ \A k \in 1..Len(r) :
             /\ (o.minConfidence # NULL => r[k].insight.confidence >= o.minConfidence[1])
             /\ (o.types # NULL /\ o.types[1] # << >> =>
                   \E j \in 1..Len(o.types[1]) : o.types[1][j] = r[k].insight.type)
             /\ get(insights, r[k].insight.id) = Some(r[k].insight)
        /\ (embeddings = << >> => last.status = "ok" /\ r = << >>)

\* C10 witness: with default options and sixteen embedded insights the best fifteen
\* are returned, of different scores
C10_Witness ==
  /\ last.op = "retrieve" /\ last.status = "ok"
  /\ last.input.options = NoRetrieveOptions
  /\ Len(embeddings) = 16
  /\ Len(last.out) = 15
  /\ last.out[1].score > last.out[15].score

\* C11: when some or all insights have no stored embedding, retrieval does not fail and
\* does not drop them: with room for every stored insight, each insight without an
\* embedding is in the result, scored confidence * log2(reinforcementCount + 2) *
\* typeBoost with no semantic term.
C11_FallbackKeepsUnembedded ==
  last.op \in {"retrieve", "retrieveCommand"} =>
    /\ last.status = "ok"
    /\ \A id \in DOMAIN insights :
         (/\ \A k \in 1..Len(embeddings) : embeddings[k].insight_id # id
          /\ Cardinality(DOMAIN insights) <= DEFAULT_MAX_RESULTS
          /\ (last.op = "retrieveCommand" => last.input.maxResults = DEFAULT_MAX_RESULTS))
         => \E k \in 1..Len(last.out) :
              LET r == last.out[k]
                  boosts == IF last.op = "retrieveCommand" THEN last.input.typeBoosts
                            ELSE OrElse(last.input.options.typeBoosts, << >>)
                  typeBoost == IF r.insight.type \in DOMAIN boosts
                               THEN boosts[r.insight.type] ELSE Scale
              IN  /\ r.insight = rowToInsight(id, insights[id])
                  /\ r.score = Mul(Mul(r.insight.confidence,
                                       Log2(r.insight.reinforcementCount + 2)), typeBoost)

\* C11 witness: the engine answered a query on a store of four insights of which one
\* has no embedding, and returned the three embedded ones only
C11_Witness ==
  /\ last.op = "retrieve" /\ last.status = "ok"
  /\ Cardinality(DOMAIN insights) = 4
  /\ Len(embeddings) = 3
  /\ Len(last.out) = 3

\* C12: a failing write of the history entry during contribute, update, reinforce or
\* merge is never turned into a failure of the operation, and the mutation is never
\* left half-applied: the call returns normally and, for merge, the source is deleted.
C12_LedgerFailureTolerated ==
  /\ last.status # "history_error"
  /\ (last.op = "merge" /\ last.status \in {"ok", "history_error"} =>
        last.id \notin DOMAIN insights)

\* C12 witness: a merge whose ledger write raised has updated the target and left the
\* source stored
C12_Witness ==
  /\ last.op = "merge" /\ last.status = "history_error"
  /\ last.id \in DOMAIN insights
  /\ last.other \in DOMAIN insights
  /\ insights[last.other].confidence = Max(insights[last.id].confidence,
                                            insights[last.other].confidence)
  /\ insights[last.other].tags # << >>
  /\ \A k \in 1..Len(history) : history[k].change_type # "merge"

\* C13: for an insight created through contribute, getHistory(id) without a limit
\* returns the entries in the order the mutations were performed: the 'create' entry
\* (field '*', new value the claim) first, then the entries of each later update,
\* reinforce or merge in execution order; while the insight exists no later operation
\* alters, reorders or removes an entry already recorded.
C13_HistoryInOrder ==
  [][
      /\ \A id \in DOMAIN insights' :
          LET e == getHistory(history', id) IN
          /\ Len(e) >= 1
          /\ e[1].changeType = "create" /\ e[1].field = "*" /\ e[1].oldValue = NULL
          /\ \A k \in 2..Len(e) :
               /\ e[k].changeType \in {"update", "reinforce", "merge"}
               /\ e[k - 1].id < e[k].id
      /\ (Succeeded("contribute") =>
            /\ Len(getHistory(history', last'.id)) = 1
            /\ getHistory(history', last'.id)[1].newValue = Some(last'.input.claim))
      /\ \A id \in DOMAIN insights \cap DOMAIN insights' :
          LET before == getHistory(history, id)
              after == getHistory(history', id)
          IN  /\ Len(after) >= Len(before)
              /\ SubSeq(after, 1, Len(before)) = before
              /\ \A k \in (Len(before) + 1)..Len(after) :
                   /\ last'.status = "ok"
                   /\ after[k].changeType = last'.op
                   /\ id = (IF last'.op = "merge" THEN last'.other ELSE last'.id)
                   /\ \A j \in 1..Len(history) : history[j].id < after[k].id]_vars

\* C13 witness: an insight was contributed, then reinforced and, a second later,
\* updated; its history has the three entries
C13_Witness ==
  /\ last.op = "update" /\ last.status = "ok"
  /\ last.id \in DOMAIN insights
  /\ LET e == getHistory(history, last.id) IN
       /\ Len(e) = 3
       /\ e[1].changeType = "create"
       /\ e[2].changeType = "reinforce"
       /\ e[3].changeType = "update"
       /\ e[3].changedAt > e[1].changedAt

\* the columns update and merge can change, and the text a ledger entry shows for a
\* stored value (an absent optional text reads as the empty string)
LedgerFields ==
  {"claim", "reasoning", "context", "limitations", "confidence", "tags", "source",
   "condition", "avoid", "reinforcement_count"}
LedgerText(field, v) ==
  CASE field = "claim" -> v
    [] field = "confidence" -> NumToText(v)
    [] field = "tags" -> JSONstringify(v)
    [] field = "avoid" -> BoolToText(v = 1)
    [] field = "reinforcement_count" -> IntToText(v)
    [] OTHER -> OrElse(v, "")

\* C14: update and merge add exactly one history entry for each field whose stored
\* value after the operation differs from its value before, and none for any other
\* field; update entries have change kind 'update', merge entries have change kind
\* 'merge', are attached to the target and annotated 'merge:<sourceId>'; the old and
\* new values of an entry are the field's values before and after the operation.
C14_OneEntryPerChangedField ==
  [][(last'.status = "ok" /\ last'.op \in {"update", "merge"}) =>
       LET id == IF last'.op = "merge" THEN last'.other ELSE last'.id
           new == SelectSeq(history', LAMBDA r : r.id >= nextHistoryId)
       IN  /\ \A k \in 1..Len(new) :
                /\ new[k].insight_id = id
                /\ new[k].change_type = last'.op
                /\ new[k].field \in LedgerFields
                /\ (last'.op = "merge" =>
                      new[k].source = Some("merge:" \o IdToText(last'.id)))
           /\ \A f \in LedgerFields :
                LET entries == {k \in 1..Len(new) : new[k].field = f} IN
                IF insights'[id][f] # insights[id][f]
                THEN /\ Cardinality(entries) = 1
                     /\ \A k \in entries :
                          /\ new[k].old_value = Some(LedgerText(f, insights[id][f]))
                          /\ new[k].new_value = Some(LedgerText(f, insights'[id][f]))
                ELSE entries = {}]_vars

\* C14 witness: update was given the empty string as reasoning for an insight stored
\* without reasoning; the column changed from NULL to '' and no entry was added
C14_Witness ==
  /\ last.op = "update" /\ last.status = "ok"
  /\ last.input.reasoning = Some("")
  /\ last.id \in DOMAIN insights
  /\ insights[last.id].reasoning = Some("")
  /\ \A k \in 1..Len(history) :
       history[k].insight_id = last.id => history[k].field # "reasoning"

\* C15: after any sequence of contribute, upsert, update, reinforce, merge and archive
\* every stored embedding and every history entry refers to an insight that exists,
\* and there is at most one embedding per insight (a second upsert replaces the first);
\* archiving an insight or absorbing it as a merge source removes its embedding and all
\* its history entries, and those of no other insight.
C15_DependentRowsOwned ==
  [][
      /\ \A k \in 1..Len(embeddings') : embeddings'[k].insight_id \in DOMAIN insights'
      /\ \A k \in 1..Len(history') : history'[k].insight_id \in DOMAIN insights'
      /\ \A j, k \in 1..Len(embeddings') :
           embeddings'[j].insight_id = embeddings'[k].insight_id => j = k
      /\ (Succeeded("upsert") =>
            /\ \E k \in 1..Len(embeddings') :
                 embeddings'[k] = [insight_id |-> last'.id, embedding |-> last'.input]
            /\ \A k \in 1..Len(embeddings) :
                 embeddings[k].insight_id # last'.id =>
                   \E j \in 1..Len(embeddings') : embeddings'[j] = embeddings[k])
      /\ (Succeeded("archive") \/ Succeeded("merge") =>
            /\ last'.id \notin DOMAIN insights'
            /\ \A k \in 1..Len(embeddings) :
                 embeddings[k].insight_id # last'.id =>
                   \E j \in 1..Len(embeddings') : embeddings'[j] = embeddings[k]
            /\ \A k \in 1..Len(history) :
                 history[k].insight_id # last'.id =>
                   \E j \in 1..Len(history') : history'[j] = history[k])
  ]_vars

\* C15 witness: an insight that was contributed and reinforced has been archived while
\* the other insight keeps its embedding and its history
C15_Witness ==
  /\ last.op = "archive"
  /\ last.id < nextId
  /\ last.id \notin DOMAIN insights
  /\ nextHistoryId > Len(history) + 2
  /\ Len(embeddings) = 1
  /\ embeddings[1].embedding = <<3, 4>>
  /\ Len(history) >= 1

\* C16: from its creation (count 0) until its deletion the reinforcementCount of an
\* insight is a non-negative integer that never decreases: reinforce raises it by
\* exactly 1, merge sets the target's count to the sum of both counts, update and the
\* operations on other insights leave it unchanged.
C16_CountNeverDecreases ==
  [][\A id \in DOMAIN insights' :
       LET after == insights'[id].reinforcement_count IN
       /\ after \in Nat
       /\ IF id \notin DOMAIN insights THEN after = 0
          ELSE LET before == insights[id].reinforcement_count IN
               /\ after >= before
               /\ after =
                    (IF Succeeded("reinforce") /\ last'.id = id THEN before + 1
                     ELSE IF Succeeded("merge") /\ last'.other = id
                          THEN before + insights[last'.id].reinforcement_count
                          ELSE before)]_vars

\* C16 witness: two insights, each reinforced once, were merged and the target counts 2
C16_Witness ==
  /\ last.op = "merge" /\ last.status = "ok"
  /\ last.other \in DOMAIN insights
  /\ insights[last.other].reinforcement_count = 2
  /\ Cardinality({k \in 1..Len(history) :
                    /\ history[k].insight_id = last.other
                    /\ history[k].change_type = "reinforce"}) = 1

\* C17: after any sequence of contribute, update and merge calls, whatever tag lists
\* they are given, the tag list of every stored insight contains no string twice.
C17_TagsNoDuplicates ==
  \A id \in DOMAIN insights :
    \A j, k \in 1..Len(insights[id].tags) :
      insights[id].tags[j] = insights[id].tags[k] => j = k

\* C17 witness: update was given a tag list that names one tag twice and the list is
\* stored as given
C17_Witness ==
  /\ last.op = "update" /\ last.status = "ok"
  /\ last.input.tags = Some(<<TagBoss, TagBoss>>)
  /\ last.id \in DOMAIN insights
  /\ insights[last.id].tags = <<TagBoss, TagBoss>>

\* C18: computeTensionScore(A, B) and computeTensionScore(B, A) return the same score
\* and the same list of pairs, whatever the letter case of A and B; the score is 0 with
\* an empty list when no opposition pair has one term in each claim, and a pair is not
\* counted when both claims contain both of its terms.
C18_TensionSymmetric ==
  last.op = "computeTensionScore" =>
    LET A == last.input.claimA
        B == last.input.claimB
        r == last.out
        Has(claim, term) == term \in tokenize(claim)
        Opposed(p) == \/ Has(A, p[1]) /\ Has(B, p[2])
                      \/ Has(A, p[2]) /\ Has(B, p[1])
        Both(p) == Has(A, p[1]) /\ Has(A, p[2]) /\ Has(B, p[1]) /\ Has(B, p[2])
    IN  /\ computeTensionScore(B, A) = r
        /\ \A A2, B2 \in TensionTexts :
             (/\ toLowerCase(Chars(A2)) = toLowerCase(Chars(A))
              /\ toLowerCase(Chars(B2)) = toLowerCase(Chars(B)))
             => computeTensionScore(A2, B2) = r
        /\ ((\A k \in 1..Len(TENSION_PAIRS) : ~Opposed(TENSION_PAIRS[k])) =>
              r.score = 0 /\ r.pairs = << >>)
        /\ \A k \in 1..Len(TENSION_PAIRS) :
             Both(TENSION_PAIRS[k]) =>
               \A j \in 1..Len(r.pairs) : r.pairs[j] # TENSION_PAIRS[k]
        /\ (r.pairs # << >> => r.score > 0)

\* C18 witness: a claim in capitals against one in small letters, with the opposed
\* terms in the second and first claim of the pair
C18_Witness ==
  /\ last.op = "computeTensionScore"
  /\ last.input.claimA = "Keep things CONCISE"
  /\ last.input.claimB = "be verbose in explanations"
  /\ Len(last.out.pairs) = 1
  /\ last.out.score > 0

\* what findSimilar owes the stored insights that carry the query text itself: each is
\* reported with similarity 1.0 unless excluded by id
SelfReported(ids) ==
  \A id \in ids :
    (insights[id].claim = last.input.claim /\ last.input.excludeId # Some(id)) =>
      \E k \in 1..Len(last.out) :
        last.out[k].insight.id = id /\ last.out[k].similarity = Scale

\* the Jaccard similarity of the word sets of the stored claims and of the query is
\* the same in both directions
JaccardSymmetric ==
  \A a, b \in {insights[id].claim : id \in DOMAIN insights} \cup {last.input.claim} :
    jaccardSimilarity(wordsOf(a), wordsOf(b)) = jaccardSimilarity(wordsOf(b), wordsOf(a))

\* C19 as stated: Jaccard similarity over claim token sets is symmetric and the
\* similarity of every claim text with itself is 1.0: findSimilar called with the exact
\* text of a stored claim reports that insight with similarity 1.0 unless it is
\* excluded by id.
C19_SelfSimilarityOne ==
  last.op = "findSimilar" =>
    /\ JaccardSymmetric
    /\ jaccardSimilarity(wordsOf(last.input.claim), wordsOf(last.input.claim)) = Scale
    /\ SelfReported(DOMAIN insights)

\* C19, amended: the same for every claim text with at least one word of three or more
\* characters; for a text without such a word the word set is empty, its similarity
\* with itself is 0 and findSimilar returns the empty list.
C19_SelfSimilarityUnlessEmpty ==
  last.op = "findSimilar" =>
    LET queryWords == wordsOf(last.input.claim) IN
    /\ JaccardSymmetric
    /\ IF queryWords # {}
       THEN /\ jaccardSimilarity(queryWords, queryWords) = Scale
            /\ SelfReported(DOMAIN insights)
       ELSE /\ jaccardSimilarity(queryWords, queryWords) = 0
            /\ last.out = << >>
    /\ \A k \in 1..Len(last.out) :
         /\ last.input.excludeId # Some(last.out[k].insight.id)
         /\ last.out[k].similarity >= last.input.minSimilarity
         /\ last.out[k].similarity <= Scale

\* C19 witness: the query is the text of two stored insights, one of them excluded by
\* id; the other is reported with similarity 1.0, ahead of a merely similar claim
C19_Witness ==
  /\ last.op = "findSimilar"
  /\ last.input.claim = ClaimDirect
  /\ last.input.excludeId = Some(1)
  /\ 1 \in DOMAIN insights
  /\ insights[1].claim = ClaimDirect
  /\ Len(last.out) = 2
  /\ last.out[1].similarity = Scale
  /\ last.out[1].insight.claim = ClaimDirect
  /\ last.out[2].similarity < Scale

\* C20: for every list of scored insights, every format and every tokenBudget B >= 0
\* the output of marshal fits the budget, estimateTokens(marshal(scored, {tokenBudget:
\* B})) <= B, and when not even the first section header fits the result is the empty
\* string.
C20_MarshalWithinBudget ==
  last.op = "marshal" =>
    LET scored == last.input.scored
        B == last.input.options.tokenBudget[1]
        present == {k \in 1..Len(TYPE_ORDER) :
                      \E i \in 1..Len(scored) : scored[i].insight.type = TYPE_ORDER[k]}
        first == CHOOSE k \in present : \A j \in present : k <= j
        firstHeader == <<"#", "#", "#", " ">> \o TYPE_LABELS[TYPE_ORDER[first]] \o <<"\n">>
    IN  /\ estimateTokens(last.out) <= B
        /\ (present = {} => last.out = << >>)
        /\ (present # {} /\ headerBudget + estimateTokens(firstHeader) > B =>
              last.out = << >>)

\* C20 witness: two insights of one type were given with a budget that admits the
\* section header and the first line only
C20_Witness ==
  /\ last.op = "marshal"
  /\ Len(last.input.scored) = 2
  /\ last.input.scored[1].insight.type = last.input.scored[2].insight.type
  /\ last.input.scored[1].insight.type = "personality"
  /\ last.input.options.format = NULL
  /\ last.out = <<"#", "#", "#", " ">> \o TYPE_LABELS["personality"] \o <<"\n">>
                  \o <<"-", " ">> \o Chars(ClaimBrief)

\* the lines of a text: text.split('\n')
RECURSIVE SplitLines(_)
SplitLines(text) ==
  IF \A k \in 1..Len(text) : text[k] # "\n" THEN <<text>>
  ELSE LET k == CHOOSE k \in 1..Len(text) :
                  text[k] = "\n" /\ \A j \in 1..(k - 1) : text[j] # "\n"
       IN  <<SubSeq(text, 1, k - 1)>> \o SplitLines(SubSeq(text, k + 1, Len(text)))

\* the display order of the types
DisplayOrder == <<"personality", "relational", "behavioral", "principle", "skill", "trigger">>

\* the indexes of the section headers and of the insight lines of an output
HeaderLines(L) == {i \in 1..Len(L) : Len(L[i]) >= 4 /\ SubSeq(L[i], 1, 4) = <<"#", "#", "#", " ">>}
InsightLines(L) == {i \in 1..Len(L) : Len(L[i]) >= 2 /\ SubSeq(L[i], 1, 2) = <<"-", " ">>}

\* the rank in the display order of the type a header line names, 0 if it names none
HeaderRank(line) ==
  LET ks == {k \in 1..Len(DisplayOrder) :
               line = <<"#", "#", "#", " ">> \o TYPE_LABELS[DisplayOrder[k]]}
  IN  IF ks = {} THEN 0 ELSE CHOOSE k \in ks : TRUE

\* the insight lines, in output order, of the section whose header is line h
RECURSIVE SectionLines(_, _)
SectionLines(L, h) ==
  IF h + 1 > Len(L) \/ (h + 1) \in HeaderLines(L) THEN << >>
  ELSE IF (h + 1) \in InsightLines(L)
       THEN <<L[h + 1]>> \o SectionLines([L EXCEPT ![h + 1] = << >>], h + 1)
       ELSE SectionLines([L EXCEPT ![h + 1] = << >>], h + 1)

\* C21: in the output of marshal the type sections appear in the order personality,
\* relational, behavioral, principle, skill, trigger; each type in the output has exactly
\* one section, only types of the input get a section, and within a section the insight
\* lines keep the relative order they had in the input list.
C21_SectionsInPriorityOrder ==
  last.op = "marshal" =>
    LET scored == last.input.scored
        includeContext == OrElse(last.input.options.includeContext, FALSE)
        format == OrElse(last.input.options.format, "compact")
        L == SplitLines(last.out)
        H == HeaderLines(L)
    IN  /\ \A i \in H :
              /\ HeaderRank(L[i]) # 0
              /\ \E j \in 1..Len(scored) :
                    scored[j].insight.type = DisplayOrder[HeaderRank(L[i])]
        /\ \A i, j \in H : i < j => HeaderRank(L[i]) < HeaderRank(L[j])
        /\ \A i \in InsightLines(L) : \E h \in H : h < i
        /\ \A h \in H :
              LET S == SectionLines(L, h)
                  G == SelectSeq(scored,
                         LAMBDA s : s.insight.type = DisplayOrder[HeaderRank(L[h])])
              IN  \E f \in [1..Len(S) -> 1..Len(G)] :
                    /\ \A a, b \in 1..Len(S) : a < b => f[a] < f[b]
                    /\ \A a \in 1..Len(S) :
                          S[a] = SplitLines(formatLine(G[f[a]].insight, includeContext,
                                                       format))[1]

\* C21 witness: a list that interleaves two types was marshalled whole, two sections
\* and three insight lines
C21_Witness ==
  /\ last.op = "marshal"
  /\ Len(last.input.scored) = 3
  /\ last.input.scored[1].insight.type = "behavioral"
  /\ last.input.scored[2].insight.type = "personality"
  /\ last.input.scored[3].insight.type = "behavioral"
  /\ last.input.scored[1].insight.claim # last.input.scored[3].insight.claim
  /\ Cardinality(HeaderLines(SplitLines(last.out))) = 2
  /\ Cardinality(InsightLines(SplitLines(last.out))) = 3

\* the multiplier retrieve was given for a type, 1.0 when none was
SuppliedBoost(options, type) ==
  IF options.typeBoosts # NULL /\ type \in DOMAIN options.typeBoosts[1]
  THEN options.typeBoosts[1][type] ELSE Scale

\* C22: each result of retrieve has score = similarity x confidence x
\* log2(reinforcementCount + 2) x typeBoost, with the cosine similarity of the query
\* and the insight's embedding and the multiplier supplied for its type, 1.0 when none
\* is; a never-reinforced insight has factor exactly 1, and between results that agree
\* on positive other factors the score strictly grows with reinforcementCount.
C22_ScoreFormula ==
  (last.op = "retrieve" /\ last.status = "ok") =>
    /\ \A k \in 1..Len(last.out) :
          LET r == last.out[k]
              boost == SuppliedBoost(last.input.options, r.insight.type)
          IN  /\ \E e \in 1..Len(embeddings) :
                    /\ embeddings[e].insight_id = r.insight.id
                    /\ r.similarity = cosineSimilarity(last.input.queryEmbedding,
                                                       embeddings[e].embedding)
              /\ r.insight = get(insights, r.insight.id)[1]
              /\ r.score = Mul(Mul(Mul(r.similarity, r.insight.confidence),
                                   Log2(r.insight.reinforcementCount + 2)), boost)
              /\ r.insight.reinforcementCount = 0 =>
                    r.score = Mul(Mul(r.similarity, r.insight.confidence), boost)
    /\ \A j, k \in 1..Len(last.out) :
          LET a == last.out[j]
              b == last.out[k]
          IN  (/\ a.similarity = b.similarity
               /\ a.similarity > 0
               /\ a.insight.confidence = b.insight.confidence
               /\ a.insight.confidence > 0
               /\ SuppliedBoost(last.input.options, a.insight.type)
                    = SuppliedBoost(last.input.options, b.insight.type)
               /\ SuppliedBoost(last.input.options, a.insight.type) > 0
               /\ a.insight.reinforcementCount < b.insight.reinforcementCount)
              => a.score < b.score

\* C22 witness: two results agree on similarity, confidence and boost, one of them
\* never reinforced and the other reinforced once
C22_Witness ==
  /\ last.op = "retrieve"
  /\ last.status = "ok"
  /\ Len(last.out) = 2
  /\ last.out[1].similarity = last.out[2].similarity
  /\ last.out[1].similarity > 0
  /\ last.out[1].insight.confidence = last.out[2].insight.confidence
  /\ last.out[1].insight.reinforcementCount = 1
  /\ last.out[2].insight.reinforcementCount = 0
  /\ last.out[1].score > last.out[2].score

\* the word with the suffix of the first rule, in the order of the rules, whose suffix
\* ends the word and leaves three characters or more; the word itself if there is none
FirstMatchingRuleStem(word) ==
  LET ks == {k \in 1..Len(STEM_RULES) :
               /\ Len(word) - Len(STEM_RULES[k]) >= 3
               /\ SubSeq(word, Len(word) - Len(STEM_RULES[k]) + 1, Len(word))
                    = STEM_RULES[k]}
      k == CHOOSE k \in ks : \A j \in ks : k <= j
  IN  IF ks = {} THEN word ELSE SubSeq(word, 1, Len(word) - Len(STEM_RULES[k]))

\* C23: for a word of three or more characters that is not in the irregular-form
\* table the stemmer strips the suffix of the first rule, in the order -ness, -ity,
\* -tion, -ment, -ing, -ly, -ous, -ive, -ful, -ed, -er, -est, -al, -s, that matches the
\* word and leaves at least three characters (detailed -> detail, quickly -> quick,
\* faster -> fast), applies at most one rule, and the token set holds the raw word and
\* this stem.
C23_FirstMatchingRuleStripped ==
  last.op = "tokenize" =>
    LET word == toLowerCase(StemTexts[last.input])
    IN  (Len(word) >= 3 /\ \A i \in 1..Len(STEM_MAP) : STEM_MAP[i][1] # word) =>
          last.out = {word, FirstMatchingRuleStem(word)}

\* C23 witness: tokenize was called on the word detailed
C23_Witness ==
  /\ last.op = "tokenize"
  /\ last.input = "detailed"
  /\ <<"d", "e", "t", "a", "i", "l", "e", "d">> \in last.out

\* the first lines of the insights of rank k and after, in display order, each with
\* the rank of its type
RECURSIVE DisplayOrdered(_, _, _, _)
DisplayOrdered(scored, includeContext, format, k) ==
  IF k > Len(DisplayOrder) THEN << >>
  ELSE LET G == SelectSeq(scored, LAMBDA s : s.insight.type = DisplayOrder[k])
       IN  [i \in 1..Len(G) |->
              [line |-> SplitLines(formatLine(G[i].insight, includeContext, format))[1],
               rank |-> k]]
           \o DisplayOrdered(scored, includeContext, format, k + 1)

\* the insight lines of an output, in output order
EmittedLines(L) == SelectSeq(L, LAMBDA l : Len(l) >= 2 /\ SubSeq(l, 1, 2) = <<"-", " ">>)

\* C24: marshal truncates once the budget is exhausted: after the first unit (section
\* header or insight line) that is rejected no later unit in display order is
\* appended, so the emitted insights are a prefix of the display-ordered sequence of
\* the insights.
C24_TruncatesAtFirstRejection ==
  last.op = "marshal" =>
    LET L == SplitLines(last.out)
        full == DisplayOrdered(last.input.scored,
                               OrElse(last.input.options.includeContext, FALSE),
                               OrElse(last.input.options.format, "compact"), 1)
        emitted == EmittedLines(L)
    IN  /\ Len(emitted) <= Len(full)
        /\ \A i \in 1..Len(emitted) : emitted[i] = full[i].line
        /\ Len(emitted) < Len(full) =>
              \A h \in HeaderLines(L) : HeaderRank(L[h]) <= full[Len(emitted) + 1].rank

\* C24 witness: marshal left out an insight and emitted another
C24_Witness ==
  /\ last.op = "marshal"
  /\ Len(last.input.scored) = 2
  /\ Len(EmittedLines(SplitLines(last.out))) = 1

\* the weighted hit count of category k of SIGNALS on a text: its weight (1.0, 1.0, 1.2,
\* 0.9) times the number of its keywords the lowercased text contains
WeightedHits(text, k) ==
  SIGNALS[k].weight
    * Cardinality({j \in 1..Len(SIGNALS[k].keywords) :
                     includes(toLowerCase(text), SIGNALS[k].keywords[j])})

\* C25: detectContext returns general, with all type boosts 1.0, exactly when the
\* query matches no keyword of any category, which includes empty and blank input;
\* whenever at least one keyword of some category matches it returns the non-general
\* category with the highest weighted hit count.
C25_GeneralOnlyWithoutHit ==
  last.op = "detectContext" =>
    LET hit == {k \in 1..Len(SIGNALS) : WeightedHits(last.input, k) > 0}
    IN  /\ (last.out.category = "general") <=> (hit = {})
        /\ last.out.category = "general" =>
              \A t \in DOMAIN last.out.typeBoosts : last.out.typeBoosts[t] = Scale
        /\ hit # {} =>
              \E k \in hit :
                /\ last.out.category = SIGNALS[k].category
                /\ \A j \in hit : WeightedHits(last.input, j) <= WeightedHits(last.input, k)

\* C25 witness: the query is the single word story, a keyword of one category
C25_Witness ==
  /\ last.op = "detectContext"
  /\ last.input = <<"s", "t", "o", "r", "y">>

\* C26: update(id, input) on an existing insight changes only the fields present in
\* input and updatedAt: every field not in input, and always id, type, createdAt,
\* reinforcementCount and lastRetrievedAt, keeps its value and no other insight is
\* affected; an update whose input has no field changes nothing, not even updatedAt,
\* and records no history entry.
C26_UpdateChangesSuppliedOnly ==
  [][
      last'.op = "update" =>
        /\ embeddings' = embeddings
        /\ DOMAIN insights' = DOMAIN insights
        /\ \A j \in DOMAIN insights : j # last'.id => insights'[j] = insights[j]
        /\ last'.id \in DOMAIN insights =>
              \A f \in DOMAIN insights[last'.id] :
                (f # "updated_at" /\ (f \notin DOMAIN last'.input \/ last'.input[f] = NULL))
                  => insights'[last'.id][f] = insights[last'.id][f]
        /\ (\A f \in DOMAIN last'.input : last'.input[f] = NULL) =>
              (insights' = insights /\ history' = history)
  ]_vars

\* C26 witness: an update that supplied the claim alone has rewritten the claim of an
\* insight that has a reasoning and a context
C26_Witness ==
  /\ last.op = "update"
  /\ last.status = "ok"
  /\ last.input.claim = Some(ClaimVerbose)
  /\ last.input.reasoning = NULL
  /\ insights[last.id].claim = ClaimVerbose
  /\ insights[last.id].reasoning # NULL
  /\ insights[last.id].context # NULL

\* the insights that have an embedding and pass the minConfidence and types filters of
\* the last retrieve
Eligible ==
  {i \in DOMAIN insights :
     /\ \E e \in 1..Len(embeddings) : embeddings[e].insight_id = i
     /\ last.input.options.minConfidence # NULL =>
           insights[i].confidence >= last.input.options.minConfidence[1]
     /\ (last.input.options.types # NULL /\ Len(last.input.options.types[1]) > 0) =>
           \E j \in 1..Len(last.input.options.types[1]) :
             last.input.options.types[1][j] = insights[i].type}

\* the score of stored insight i for the last retrieve
ScoreOf(i) ==
  LET e == CHOOSE e \in 1..Len(embeddings) : embeddings[e].insight_id = i
  IN  Mul(Mul(Mul(cosineSimilarity(last.input.queryEmbedding, embeddings[e].embedding),
                  insights[i].confidence),
              Log2(insights[i].reinforcement_count + 2)),
          SuppliedBoost(last.input.options, insights[i].type))

\* C27: retrieve returns exactly min(maxResults, E) results, E the number of insights
\* that have an embedding and pass the minConfidence and types filters, and no such
\* insight that is left out has a strictly higher score than one that is returned,
\* for any corpus size and any maxResults.
C27_TopByScoreAnySize ==
  (last.op = "retrieve" /\ last.status = "ok") =>
    LET maxResults == OrElse(last.input.options.maxResults, 15)
        returned == {last.out[k].insight.id : k \in 1..Len(last.out)}
    IN  /\ Len(last.out) = Min(maxResults, Cardinality(Eligible))
        /\ \A i \in Eligible \ returned :
              \A k \in 1..Len(last.out) : ScoreOf(i) <= last.out[k].score

\* C27 witness: retrieve ran on a store of more than 100 embedded insights
C27_Witness ==
  /\ last.op = "retrieve"
  /\ last.status = "ok"
  /\ Len(embeddings) > 100
  /\ Cardinality(Eligible) > 100

\* the ledger rows of the reinforcements of insight id, oldest first
ReinforceRows(id) ==
  SelectSeq(history, LAMBDA r : r.insight_id = id /\ r.change_type = "reinforce")

\* C28: when two process instances run reinforce on the same insight and their reads
\* and writes interleave, the final state is that of two sequential reinforces: the
\* count has grown by 2, the confidence has been nudged twice, and the two ledger
\* entries carry the annotations reinforce:n+1 and reinforce:n+2 with old and new
\* values that form a chain. Every insight here starts at confidence 0.8 and count 0.
C28_InterleavedAsSequential ==
  (\A p \in Procs : procs[p].pc = "idle") =>
    \A id \in DOMAIN insights :
      LET rs == ReinforceRows(id) IN
      /\ insights[id].reinforcement_count = Len(rs)
      /\ insights[id].confidence = Reinforced(BaseInput.confidence, Len(rs))
      /\ \A j \in 1..Len(rs) :
            /\ rs[j].source = Some("reinforce:" \o IntToText(j))
            /\ rs[j].old_value = Some(NumToText(Reinforced(BaseInput.confidence, j - 1)))
            /\ rs[j].new_value = Some(NumToText(Reinforced(BaseInput.confidence, j)))

\* C28 witness: both processes are inside reinforce on the same insight, one before its
\* UPDATE and one after
C28_Witness ==
  /\ procs[1].pc = "record"
  /\ procs[2].pc = "update"
  /\ procs[1].id = procs[2].id

C30_ReadsModifyNothing ==
  [][
      /\ last'.op \in ReadOps =>
            /\ insights' = insights
            /\ embeddings' = embeddings
            /\ history' = history
      /\ \A id \in DOMAIN insights' :
            IF id \in DOMAIN insights
            THEN insights'[id].last_retrieved_at # insights[id].last_retrieved_at =>
                   last'.op = "reinforce" /\ last'.id = id /\ last'.status = "ok"
            ELSE insights'[id].last_retrieved_at = NULL
  ]_vars

\* C30 witness: retrieve returned an insight that had been reinforced before
C30_Witness ==
  /\ last.op = "retrieve"
  /\ last.status = "ok"
  /\ \E k \in 1..Len(last.out) :
       /\ last.out[k].insight.reinforcementCount >= 1
       /\ last.out[k].insight.lastRetrievedAt # NULL
       /\ insights[last.out[k].insight.id].last_retrieved_at
            = last.out[k].insight.lastRetrievedAt

====
